---- MODULE Spec2Model ----
(***************************************************************************)
(* Xapian weighting-scheme API (xapian/weight.h) and the synonym           *)
(* combinator (matcher/synonympostlist.cc).                                *)
(*                                                                         *)
(* A Weight instance is modelled by its declared statistics bit-set        *)
(* (stats_needed, a 32-bit word kept as the set of its set bit positions), *)
(* whether init_() has run, and the bound its get_maxpart() returns.       *)
(* A SynonymPostList owns one Weight instance through the raw pointer wt   *)
(* and wraps one child posting list pl.                                    *)
(***************************************************************************)
EXTENDS Integers, Sequences, FiniteSets, TLC

\* ---------------------------------------------------------------- bounds
\* Number of documents in the child posting list (docids 1..NumDocs).
NumDocs == 2
\* Largest (approximated) wdf the child posting list reports.
MaxWdf == 2
\* Largest document length in the shard.
MaxDocLen == 2
\* Number of Weight instances allocated during one run.
MaxWeights == 2
\* Largest unique_terms value handed to get_weight.
MaxUniq == 1
\* Largest value an instance's get_maxpart() returns.
MaxPart == 1
\* Largest number of sub-queries wrapped by the combinator's child.
MaxSubqs == 5
\* Longest sequence of need_stat calls made on one instance.
MaxCalls == 4

NULL == 0
\* The shards considered: document lengths cycle through 1..MaxDocLen,
\* starting from either end.
DocLengths ==
    {[d \in 1..NumDocs |-> ((d + k) % MaxDocLen) + 1] : k \in 0..1}
Docs == 1..NumDocs
Ids == 1..MaxWeights
AtEnd == NumDocs + 1

Min(a, b) == IF a < b THEN a ELSE b

\* --------------------------------------------------- Weight::stat_flags
\* The enumerators, each statistic given a value of its own.
stat_flags_distinct ==
    [COLLECTION_SIZE |-> 131072, RSET_SIZE |-> 262144, AVERAGE_LENGTH |-> 4,
     TERMFREQ |-> 1, RELTERMFREQ |-> 524288, QUERY_LENGTH |-> 1048576,
     WQF |-> 2097152, WDF |-> 2, DOC_LENGTH |-> 8, DOC_LENGTH_MIN |-> 16,
     DOC_LENGTH_MAX |-> 32, WDF_MAX |-> 64, COLLECTION_FREQ |-> 4194304,
     UNIQUE_TERMS |-> 128, TOTAL_LENGTH |-> 256, WDF_DOC_MAX |-> 512,
     UNIQUE_TERMS_MIN |-> 1024, UNIQUE_TERMS_MAX |-> 2048,
     DB_DOC_LENGTH_MIN |-> 4096, DB_DOC_LENGTH_MAX |-> 8192,
     DB_UNIQUE_TERMS_MIN |-> 16384, DB_UNIQUE_TERMS_MAX |-> 32768,
     DB_WDF_MAX |-> 65536, IS_BOOLWEIGHT_ |-> (-2147483647) - 1]

\* The enumerators with their numeric values.  IS_BOOLWEIGHT_ is
\* static_cast<int>(0x80000000), the most negative 32-bit int.
stat_flags ==
    [COLLECTION_SIZE |-> 0, RSET_SIZE |-> 0, AVERAGE_LENGTH |-> 4,
     TERMFREQ |-> 1, RELTERMFREQ |-> 1, QUERY_LENGTH |-> 0, WQF |-> 0,
     WDF |-> 2, DOC_LENGTH |-> 8, DOC_LENGTH_MIN |-> 16,
     DOC_LENGTH_MAX |-> 32, WDF_MAX |-> 64, COLLECTION_FREQ |-> 1,
     UNIQUE_TERMS |-> 128, TOTAL_LENGTH |-> 256, WDF_DOC_MAX |-> 512,
     UNIQUE_TERMS_MIN |-> 1024, UNIQUE_TERMS_MAX |-> 2048,
     DB_DOC_LENGTH_MIN |-> 4096, DB_DOC_LENGTH_MAX |-> 8192,
     DB_UNIQUE_TERMS_MIN |-> 16384, DB_UNIQUE_TERMS_MAX |-> 32768,
     DB_WDF_MAX |-> 65536, IS_BOOLWEIGHT_ |-> (-2147483647) - 1]

RECURSIVE Pow2(_)
Pow2(n) == IF n = 0 THEN 1 ELSE 2 * Pow2(n - 1)

\* The bit positions set in the two's-complement 32-bit word v.
Bits(v) ==
    LET low == IF v < 0 THEN v - ((-2147483647) - 1) ELSE v
    IN  {b \in 0..30 : (low \div Pow2(b)) % 2 = 1}
            \cup (IF v < 0 THEN {31} ELSE {})

\* The bits of each enumerator.
FlagBits == [name \in DOMAIN stat_flags |-> Bits(stat_flags[name])]

\* need_stat toggling the flag (^ for |).
need_stat_xor(stats_needed, flag) ==
    (stats_needed \ FlagBits[flag]) \cup (FlagBits[flag] \ stats_needed)

\* need_stat overwriting the set (= for |=).
need_stat_assign(stats_needed, flag) == FlagBits[flag]

\* Weight::need_stat(flag): stats_needed = stat_flags(stats_needed | flag).
need_stat(stats_needed, flag) == stats_needed \cup FlagBits[flag]

\* Weight::Weight() : stats_needed() { }
Weight == {}

\* A constructor body: need_stat() for each flag of the sequence, in order.
RECURSIVE NeedAll(_, _)
NeedAll(stats_needed, flags) ==
    IF flags = << >> THEN stats_needed
    ELSE NeedAll(need_stat(stats_needed, Head(flags)), Tail(flags))

\* stats_needed & DOC_LENGTH, & WDF, & UNIQUE_TERMS, & WDF_DOC_MAX,
\* & IS_BOOLWEIGHT_, each converted to bool.
get_sumpart_needs_doclength_(stats_needed) ==
    (stats_needed \cap FlagBits.DOC_LENGTH) # {}

get_sumpart_needs_wdf_(stats_needed) ==
    (stats_needed \cap FlagBits.WDF) # {}

\* The test made against UNIQUE_TERMS_MIN instead of UNIQUE_TERMS.
get_sumpart_needs_uniqueterms_MIN(stats_needed) ==
    (stats_needed \cap FlagBits.UNIQUE_TERMS_MIN) # {}

get_sumpart_needs_uniqueterms_(stats_needed) ==
    (stats_needed \cap FlagBits.UNIQUE_TERMS) # {}

\* The test made against WDF_MAX instead of WDF_DOC_MAX.
get_sumpart_needs_wdfdocmax_WDF_MAX(stats_needed) ==
    (stats_needed \cap FlagBits.WDF_MAX) # {}

get_sumpart_needs_wdfdocmax_(stats_needed) ==
    (stats_needed \cap FlagBits.WDF_DOC_MAX) # {}

\* The sentinel ORed in instead of tested (| for &).
is_bool_weight_or(stats_needed) ==
    (stats_needed \cup FlagBits.IS_BOOLWEIGHT_) # {}

is_bool_weight_(stats_needed) ==
    (stats_needed \cap FlagBits.IS_BOOLWEIGHT_) # {}

\* ------------------------------------------- built-in scheme constructors
BoolWeight == NeedAll(Weight, <<"IS_BOOLWEIGHT_">>)

CoordWeight == Weight

TfIdfWeight ==
    NeedAll(Weight, <<"WQF", "TERMFREQ", "WDF", "WDF_MAX", "COLLECTION_SIZE">>)

\* BM25Weight() without its need_stat(DOC_LENGTH).
BM25Weight_no_doclen ==
    NeedAll(Weight, <<"COLLECTION_SIZE", "RSET_SIZE", "TERMFREQ",
                      "RELTERMFREQ", "WDF", "WDF_MAX", "DOC_LENGTH_MIN",
                      "AVERAGE_LENGTH", "WQF">>)

BM25Weight ==
    NeedAll(Weight, <<"COLLECTION_SIZE", "RSET_SIZE", "TERMFREQ",
                      "RELTERMFREQ", "WDF", "WDF_MAX", "DOC_LENGTH_MIN",
                      "AVERAGE_LENGTH", "DOC_LENGTH", "WQF">>)

DiceCoeffWeight ==
    NeedAll(Weight, <<"WQF", "QUERY_LENGTH", "UNIQUE_TERMS",
                      "UNIQUE_TERMS_MIN">>)

\* A user subclass whose constructor declares the per-document statistics
\* of the sequence flags.
UserWeight(flags) == NeedAll(Weight, flags)

\* The declared sets of the strategies handed to a combinator.
Schemes ==
    {BoolWeight, CoordWeight, TfIdfWeight, BM25Weight, DiceCoeffWeight,
     UserWeight(<<"DOC_LENGTH">>), UserWeight(<<"WDF_DOC_MAX">>),
     UserWeight(<<"WDF", "WDF_DOC_MAX">>),
     UserWeight(<<"DOC_LENGTH", "WDF_DOC_MAX">>),
     UserWeight(<<"WDF", "DOC_LENGTH", "WDF_DOC_MAX">>)}

\* ---------------------------------------------------------------- doubles
\* Constructor arguments range over the multiples of 0.5 from -0.5 up to
\* MaxHalves / 2, and NaN.
MaxHalves == 3

\* A double: a finite value held in tenths, or NaN.
Double(tenths) == [nan |-> FALSE, v |-> tenths]
NaN == [nan |-> TRUE, v |-> 0]

\* x < y, x > y, x <= y, x >= y and x != y on doubles: an ordered comparison
\* with a NaN operand is false, != with a NaN operand is true.
Lt(x, y) == ~x.nan /\ ~y.nan /\ x.v < y.v
Gt(x, y) == ~x.nan /\ ~y.nan /\ x.v > y.v
Le(x, y) == ~x.nan /\ ~y.nan /\ x.v <= y.v
Ge(x, y) == ~x.nan /\ ~y.nan /\ x.v >= y.v
Ne(x, y) == x.nan \/ y.nan \/ x.v # y.v

DoubleArgs == {NaN} \cup {Double(5 * h) : h \in (-1)..MaxHalves}

\* ------------------------------------------------- values scoring returns
\* The number (n / d) * L, where L is log(a / b) if log and 1 otherwise.
Value(n, d) == [n |-> n, d |-> d, log |-> FALSE, a |-> 1, b |-> 1]

\* x * log(a / b) for a value x without a log factor.
TimesLog(x, a, b) == [x EXCEPT !.log = TRUE, !.a = a, !.b = b]

\* x = 0: a zero numerator, or a factor log(1).
IsZero(x) == x.n = 0 \/ (x.log /\ x.a = x.b)

\* x <= y for values without a log factor and with positive denominators.
Leq(x, y) == x.n * y.d <= y.n * x.d

\* ------------------------------------------------------ scheme instances
\* A scheme instance no constructor has built yet.
NoScheme ==
    [scheme |-> "none", args |-> << >>,
     param_k1 |-> Double(0), param_k2 |-> Double(0), param_k3 |-> Double(0),
     param_b |-> Double(0), param_min_normlen |-> Double(0),
     param_delta |-> Double(0), param_lambda |-> Double(0),
     stats_needed |-> Weight, inited |-> FALSE, factor |-> 0,
     query_length_ |-> 0, wqf_ |-> 0, termfreq_ |-> 0,
     collection_size_ |-> 0, unique_terms_lower_bound_ |-> 0,
     wdf_upper_bound_ |-> 0, average_length_ |-> 0,
     lambda |-> Double(0), numerator |-> 0, upper_bound |-> Value(0, 1),
     wqf_factor |-> 0, idfn |-> Value(0, 1),
     len_factor |-> Value(0, 1), termweight |-> << >>,
     op |-> "none", wdf |-> 0, doclen |-> 0, uniqterm |-> 0,
     wdfdocmax |-> 0, ret |-> Value(0, 1)]

\* A constructed scheme instance whose constructor takes no argument.
Scheme(name, stats_needed) ==
    [NoScheme EXCEPT !.scheme = name, !.stats_needed = stats_needed]

\* if (param < 0) param = 0, left out.
ClampNonNegative_none(param) == param

\* if (param < 0) param = 0;
ClampNonNegative(param) == IF Lt(param, Double(0)) THEN Double(0) ELSE param

\* The clamp of b without its upper half.
ClampUnit_lower(param_b) ==
    IF Lt(param_b, Double(0)) THEN Double(0) ELSE param_b

\* if (param_b < 0) param_b = 0; else if (param_b > 1) param_b = 1;
ClampUnit(param_b) ==
    IF Lt(param_b, Double(0)) THEN Double(0)
    ELSE IF Gt(param_b, Double(10)) THEN Double(10)
    ELSE param_b

\* The statistics with DOC_LENGTH declared when k1 or b is non-zero.
BM25Stats_or(param_k1, param_k2, param_k3, param_b) ==
    LET unconditional ==
            NeedAll(Weight, <<"COLLECTION_SIZE", "RSET_SIZE", "TERMFREQ",
                              "RELTERMFREQ", "WDF", "WDF_MAX">>)
        normlen ==
            IF \/ Ne(param_k2, Double(0))
               \/ (Ne(param_k1, Double(0)) /\ Ne(param_b, Double(0)))
            THEN NeedAll(unconditional, <<"DOC_LENGTH_MIN", "AVERAGE_LENGTH">>)
            ELSE unconditional
        doclen ==
            IF Ne(param_k1, Double(0)) \/ Ne(param_b, Double(0))
            THEN need_stat(normlen, "DOC_LENGTH")
            ELSE normlen
        k2 ==
            IF Ne(param_k2, Double(0))
            THEN NeedAll(doclen, <<"DOC_LENGTH", "QUERY_LENGTH">>)
            ELSE doclen
    IN  IF Ne(param_k3, Double(0)) THEN need_stat(k2, "WQF") ELSE k2

\* The need_stat calls of the BM25Weight and BM25PlusWeight constructors,
\* made on the stored (clamped) parameters.
BM25Stats(param_k1, param_k2, param_k3, param_b) ==
    LET unconditional ==
            NeedAll(Weight, <<"COLLECTION_SIZE", "RSET_SIZE", "TERMFREQ",
                              "RELTERMFREQ", "WDF", "WDF_MAX">>)
        normlen ==
            IF \/ Ne(param_k2, Double(0))
               \/ (Ne(param_k1, Double(0)) /\ Ne(param_b, Double(0)))
            THEN NeedAll(unconditional, <<"DOC_LENGTH_MIN", "AVERAGE_LENGTH">>)
            ELSE unconditional
        doclen ==
            IF Ne(param_k1, Double(0)) /\ Ne(param_b, Double(0))
            THEN need_stat(normlen, "DOC_LENGTH")
            ELSE normlen
        k2 ==
            IF Ne(param_k2, Double(0))
            THEN NeedAll(doclen, <<"DOC_LENGTH", "QUERY_LENGTH">>)
            ELSE doclen
    IN  IF Ne(param_k3, Double(0)) THEN need_stat(k2, "WQF") ELSE k2

\* BM25Weight(k1, k2, k3, b, min_normlen) declaring its statistics from the
\* arguments as passed instead of the clamped members.
BM25Weight_params_raw(k1, k2, k3, b, min_normlen) ==
    [NoScheme EXCEPT
        !.scheme = "bm25", !.args = <<k1, k2, k3, b, min_normlen>>,
        !.param_k1 = ClampNonNegative(k1), !.param_k2 = ClampNonNegative(k2),
        !.param_k3 = ClampNonNegative(k3), !.param_b = ClampUnit(b),
        !.param_min_normlen = min_normlen,
        !.stats_needed = BM25Stats(k1, k2, k3, b)]

\* BM25Weight(k1, k2, k3, b, min_normlen).
BM25Weight_params(k1, k2, k3, b, min_normlen) ==
    LET param_k1 == ClampNonNegative(k1)
        param_k2 == ClampNonNegative(k2)
        param_k3 == ClampNonNegative(k3)
        param_b == ClampUnit(b)
    IN  [NoScheme EXCEPT
            !.scheme = "bm25", !.args = <<k1, k2, k3, b, min_normlen>>,
            !.param_k1 = param_k1, !.param_k2 = param_k2,
            !.param_k3 = param_k3, !.param_b = param_b,
            !.param_min_normlen = min_normlen,
            !.stats_needed = BM25Stats(param_k1, param_k2, param_k3, param_b)]

\* BM25PlusWeight(k1, k2, k3, b, min_normlen, delta).
BM25PlusWeight_params(k1, k2, k3, b, min_normlen, delta) ==
    LET param_k1 == ClampNonNegative(k1)
        param_k2 == ClampNonNegative(k2)
        param_k3 == ClampNonNegative(k3)
        param_delta == ClampNonNegative(delta)
        param_b == ClampUnit(b)
    IN  [NoScheme EXCEPT
            !.scheme = "bm25+",
            !.args = <<k1, k2, k3, b, min_normlen, delta>>,
            !.param_k1 = param_k1, !.param_k2 = param_k2,
            !.param_k3 = param_k3, !.param_b = param_b,
            !.param_min_normlen = min_normlen, !.param_delta = param_delta,
            !.stats_needed = BM25Stats(param_k1, param_k2, param_k3, param_b)]

\* TradWeight(k) : BM25Weight(k, 0.0, 0.0, 1.0, 0.0).
TradWeight(k) ==
    [BM25Weight_params(k, Double(0), Double(0), Double(10), Double(0))
        EXCEPT !.scheme = "trad", !.args = <<k>>]

\* BM25PlusWeight(): the need_stat calls of the default constructor.
BM25PlusWeight ==
    NeedAll(Weight, <<"COLLECTION_SIZE", "RSET_SIZE", "TERMFREQ",
                      "RELTERMFREQ", "WDF", "WDF_MAX", "DOC_LENGTH_MIN",
                      "AVERAGE_LENGTH", "DOC_LENGTH", "WQF">>)

InL2Weight ==
    NeedAll(Weight, <<"AVERAGE_LENGTH", "DOC_LENGTH", "DOC_LENGTH_MIN",
                      "DOC_LENGTH_MAX", "COLLECTION_SIZE", "WDF", "WDF_MAX",
                      "WQF", "TERMFREQ">>)

IfB2Weight ==
    NeedAll(Weight, <<"AVERAGE_LENGTH", "DOC_LENGTH", "DOC_LENGTH_MIN",
                      "DOC_LENGTH_MAX", "COLLECTION_SIZE", "COLLECTION_FREQ",
                      "WDF", "WDF_MAX", "WQF", "TERMFREQ">>)

IneB2Weight ==
    NeedAll(Weight, <<"AVERAGE_LENGTH", "DOC_LENGTH", "DOC_LENGTH_MIN",
                      "DOC_LENGTH_MAX", "COLLECTION_SIZE", "WDF", "WDF_MAX",
                      "WQF", "COLLECTION_FREQ", "TERMFREQ">>)

BB2Weight ==
    NeedAll(Weight, <<"AVERAGE_LENGTH", "DOC_LENGTH", "DOC_LENGTH_MIN",
                      "DOC_LENGTH_MAX", "COLLECTION_SIZE", "COLLECTION_FREQ",
                      "WDF", "WDF_MAX", "WQF", "TERMFREQ">>)

DLHWeight ==
    NeedAll(Weight, <<"DOC_LENGTH", "COLLECTION_FREQ", "WDF", "WQF",
                      "WDF_MAX", "DOC_LENGTH_MIN", "DOC_LENGTH_MAX",
                      "TOTAL_LENGTH">>)

PL2Weight ==
    NeedAll(Weight, <<"AVERAGE_LENGTH", "DOC_LENGTH", "DOC_LENGTH_MIN",
                      "DOC_LENGTH_MAX", "COLLECTION_SIZE", "COLLECTION_FREQ",
                      "WDF", "WDF_MAX", "WQF">>)

PL2PlusWeight ==
    NeedAll(Weight, <<"AVERAGE_LENGTH", "DOC_LENGTH", "DOC_LENGTH_MIN",
                      "DOC_LENGTH_MAX", "COLLECTION_SIZE", "COLLECTION_FREQ",
                      "WDF", "WDF_MAX", "WQF">>)

DPHWeight ==
    NeedAll(Weight, <<"DOC_LENGTH", "COLLECTION_FREQ", "WDF", "WQF",
                      "WDF_MAX", "DOC_LENGTH_MIN", "DOC_LENGTH_MAX",
                      "TOTAL_LENGTH">>)

\* LMJMWeight(lambda) : param_lambda(lambda).
LMJMWeight(lambda) ==
    [NoScheme EXCEPT
        !.scheme = "lmjm", !.args = <<lambda>>, !.param_lambda = lambda,
        !.stats_needed =
            NeedAll(Weight, <<"WQF", "QUERY_LENGTH", "DOC_LENGTH", "WDF",
                              "WDF_MAX", "COLLECTION_FREQ", "TOTAL_LENGTH",
                              "DOC_LENGTH_MIN">>)]

\* LMDirichletWeight(mu, delta), LMAbsDiscountWeight(delta) and
\* LM2StageWeight(lambda, mu): their need_stat calls do not depend on the
\* arguments.
LMDirichletWeight ==
    NeedAll(Weight, <<"WQF", "QUERY_LENGTH", "DOC_LENGTH", "WDF", "WDF_MAX",
                      "COLLECTION_FREQ", "TOTAL_LENGTH", "DOC_LENGTH_MIN",
                      "DOC_LENGTH_MAX">>)

LMAbsDiscountWeight ==
    NeedAll(Weight, <<"WQF", "QUERY_LENGTH", "DOC_LENGTH", "WDF", "WDF_MAX",
                      "COLLECTION_FREQ", "TOTAL_LENGTH", "DOC_LENGTH_MIN",
                      "UNIQUE_TERMS", "DOC_LENGTH_MAX">>)

LM2StageWeight ==
    NeedAll(Weight, <<"WQF", "QUERY_LENGTH", "DOC_LENGTH", "WDF", "WDF_MAX",
                      "COLLECTION_FREQ", "TOTAL_LENGTH", "DOC_LENGTH_MIN",
                      "DOC_LENGTH_MAX">>)

\* BM25Weight() and BM25PlusWeight(): the default parameters k1 = 1, k2 = 0,
\* k3 = 1, b = 0.5, min_normlen = 0.5 and delta = 1.
BM25Weight_default ==
    [NoScheme EXCEPT
        !.scheme = "bm25", !.param_k1 = Double(10), !.param_k3 = Double(10),
        !.param_b = Double(5), !.param_min_normlen = Double(5),
        !.stats_needed = BM25Weight]

BM25PlusWeight_default ==
    [NoScheme EXCEPT
        !.scheme = "bm25+", !.param_k1 = Double(10), !.param_k3 = Double(10),
        !.param_b = Double(5), !.param_min_normlen = Double(5),
        !.param_delta = Double(10), !.stats_needed = BM25PlusWeight]

\* The built-in schemes whose constructors take no argument (or whose
\* arguments play no part in what they declare), by name().
FixedSchemes ==
    [bool |-> BoolWeight, coord |-> CoordWeight, dicecoeff |-> DiceCoeffWeight,
     tfidf |-> TfIdfWeight, inl2 |-> InL2Weight, ifb2 |-> IfB2Weight,
     ineb2 |-> IneB2Weight, bb2 |-> BB2Weight, dlh |-> DLHWeight,
     pl2 |-> PL2Weight, pl2plus |-> PL2PlusWeight, dph |-> DPHWeight,
     lmdirichlet |-> LMDirichletWeight, lmabsdiscount |-> LMAbsDiscountWeight,
     lm2stage |-> LM2StageWeight]

\* The min_normlen arguments considered (the constructors store the
\* argument as it is and declare nothing from it).
MinNormlenArgs == {Double(0), Double(5)}

\* Every instance a constructor of a built-in scheme builds.
Constructions ==
    {Scheme(name, FixedSchemes[name]) : name \in DOMAIN FixedSchemes}
        \cup {BM25Weight_default, BM25PlusWeight_default}
        \cup {BM25Weight_params(k1, k2, k3, b, min_normlen) :
                k1 \in DoubleArgs, k2 \in DoubleArgs, k3 \in DoubleArgs,
                b \in DoubleArgs, min_normlen \in MinNormlenArgs}
        \cup {BM25PlusWeight_params(k1, k2, k3, b, Double(5), delta) :
                k1 \in DoubleArgs, k2 \in DoubleArgs, k3 \in DoubleArgs,
                b \in DoubleArgs, delta \in DoubleArgs}
        \cup {TradWeight(k) : k \in DoubleArgs}
        \cup {LMJMWeight(lambda) :
                lambda \in DoubleArgs \cup {Double(1), Double(9)}}

\* ---------------------------------------------------- init() and scoring
\* Largest query length, within-query frequency, scaling factor, collection
\* size and number of unique terms of a statistics snapshot.
MaxQueryLength == 9
MaxWqf == 2
MaxFactor == 2
MaxCollection == 2
MaxUniqueTerms == 3

\* The statistics handed to init_() for an instance of the scheme: what its
\* init() reads ranges, the rest is 0.  A term occurs in no more documents
\* than the collection has, and no more often in the query than the query
\* is long.
StatsFor(scheme) ==
    {s \in [query_length :
                IF scheme = "lmjm" THEN 0..MaxQueryLength
                ELSE IF scheme = "dicecoeff" THEN 1..(MaxWqf + 1)
                ELSE {0},
            wqf :
                IF scheme \in {"lmjm", "dicecoeff", "tfidf", "bm25"}
                THEN 1..MaxWqf ELSE {0},
            termfreq :
                IF scheme \in {"tfidf", "bm25"} THEN 1..MaxCollection
                ELSE {0},
            collection_size :
                IF scheme = "tfidf" THEN 1..MaxCollection
                ELSE IF scheme = "bm25" THEN {MaxCollection} ELSE {0},
            average_length :
                IF scheme = "bm25" THEN 1..MaxDocLen ELSE {0},
            unique_terms_lower_bound :
                IF scheme = "dicecoeff" THEN 1..MaxUniqueTerms ELSE {0},
            wdf_upper_bound :
                IF scheme = "tfidf" THEN 1..MaxWdf ELSE {0}] :
        /\ s.termfreq <= s.collection_size
        /\ scheme = "dicecoeff" => s.wqf <= s.query_length}

\* BoolWeight::init(factor): nothing to do.
BoolWeight_init(w, factor) == w

\* BoolWeight::get_maxpart() returning the scaling factor.
BoolWeight_get_maxpart_factor(w) == Value(w.factor, 1)

\* BoolWeight: all documents get zero weight.
BoolWeight_get_maxpart(w) == Value(0, 1)

BoolWeight_get_sumpart(w, wdf, doclen, uniqterm, wdfdocmax) == Value(0, 1)

\* Weight::get_sumextra and Weight::get_maxextra: the default implementation
\* always returns 0.
Weight_get_sumextra(w, doclen, uniqterms, wdfdocmax) == Value(0, 1)

Weight_get_maxextra(w) == Value(0, 1)

\* CoordWeight::init(factor_): factor = factor_.
CoordWeight_init(w, factor_) == [w EXCEPT !.factor = factor_]

\* CoordWeight::get_maxpart() returning the unscaled point.
CoordWeight_get_maxpart_one(w) == Value(1, 1)

\* CoordWeight: each matching term scores one point, multiplied by factor.
CoordWeight_get_maxpart(w) == Value(w.factor, 1)

CoordWeight_get_sumpart(w, wdf, doclen, uniqterm, wdfdocmax) ==
    Value(w.factor, 1)

\* DiceCoeffWeight::init(factor): the numerator 2 * wqf, scaled by factor,
\* and the weight at the lower bound on the unique terms of a document.
DiceCoeffWeight_init(w, factor) ==
    LET numerator == 2 * w.wqf_ * factor
    IN  [w EXCEPT
            !.numerator = numerator,
            !.upper_bound =
                Value(numerator,
                      w.query_length_ + w.unique_terms_lower_bound_)]

\* The Dice weight with the document length in place of its unique terms.
DiceCoeffWeight_get_sumpart_doclen(w, wdf, doclen, uniqterm, wdfdocmax) ==
    Value(w.numerator, w.query_length_ + doclen)

DiceCoeffWeight_get_sumpart(w, wdf, doclen, uniqterm, wdfdocmax) ==
    Value(w.numerator, w.query_length_ + uniqterm)

DiceCoeffWeight_get_maxpart(w) == w.upper_bound

\* TfIdfWeight::get_wdfn for wdf_norm::NONE: wdfn=wdf.
TfIdfWeight_get_wdfn(w, wdf, len, uniqterms, wdfdocmax) == Value(wdf, 1)

\* TfIdfWeight::get_idfn for idf_norm::PIVOTED: idfn=log((N+1)/Termfreq).
TfIdfWeight_get_idfn_PIVOTED(w) ==
    TimesLog(Value(1, 1), w.collection_size_ + 1, w.termfreq_)

\* TfIdfWeight::get_idfn for idf_norm::TFIDF: idfn=log(N/Termfreq).
TfIdfWeight_get_idfn(w) ==
    TimesLog(Value(1, 1), w.collection_size_, w.termfreq_)

\* TfIdfWeight::get_wtn for wt_norm::NONE: wtn=tfn*idfn (tfn without a log
\* factor).
TfIdfWeight_get_wtn(tfn, idfn) ==
    [idfn EXCEPT !.n = tfn.n * idfn.n, !.d = tfn.d * idfn.d]

\* TfIdfWeight::init(factor): wqf_factor and the document-independent idfn.
TfIdfWeight_init(w, factor) ==
    [w EXCEPT !.wqf_factor = w.wqf_ * factor, !.idfn = TfIdfWeight_get_idfn(w)]

TfIdfWeight_get_sumpart(w, wdf, doclen, uniqterm, wdfdocmax) ==
    LET wdfn == TfIdfWeight_get_wdfn(w, wdf, doclen, uniqterm, wdfdocmax)
    IN  TfIdfWeight_get_wtn(Value(w.wqf_factor * wdfn.n, wdfn.d), w.idfn)

TfIdfWeight_get_maxpart(w) ==
    LET wdfn == TfIdfWeight_get_wdfn(w, w.wdf_upper_bound_, 0, 0, 0)
    IN  TfIdfWeight_get_wtn(Value(w.wqf_factor * wdfn.n, wdfn.d), w.idfn)

\* The lambda test of LMJMWeight::init with the bounds themselves in range.
LMJMWeight_init_closed(w, factor_) ==
    LET out_of_range ==
            \/ Lt(w.param_lambda, Double(0))
            \/ Gt(w.param_lambda, Double(10))
    IN  [w EXCEPT
            !.factor = factor_,
            !.lambda =
                IF ~out_of_range THEN w.param_lambda
                ELSE IF w.query_length_ <= 2 THEN Double(1)
                ELSE IF w.query_length_ >= 8 THEN Double(7)
                ELSE Double(w.query_length_ - 1)]

\* LMJMWeight::init(factor_): a lambda out of range (<= 0 or >= 1) is
\* replaced by (query_length - 1) / 10.0, which is 0.1 for query_length <= 2
\* and 0.7 for query_length >= 8.
LMJMWeight_init(w, factor_) ==
    LET out_of_range ==
            \/ Le(w.param_lambda, Double(0))
            \/ Ge(w.param_lambda, Double(10))
    IN  [w EXCEPT
            !.factor = factor_,
            !.lambda =
                IF ~out_of_range THEN w.param_lambda
                ELSE IF w.query_length_ <= 2 THEN Double(1)
                ELSE IF w.query_length_ >= 8 THEN Double(7)
                ELSE Double(w.query_length_ - 1)]

\* BM25Weight::init(factor): caches in the mutable members the factor to
\* multiply the document length by (the reciprocal of the average length;
\* 0 when the parameters switch length normalisation off) and the factor
\* combining the document-independent quantities, kept here as the list of
\* what it is computed from.
BM25Weight_init(w, factor) ==
    [w EXCEPT
        !.len_factor =
            IF FlagBits.AVERAGE_LENGTH \subseteq w.stats_needed
            THEN Value(1, w.average_length_) ELSE Value(0, 1),
        !.termweight =
            <<w.termfreq_, w.collection_size_, w.wqf_, factor,
              w.param_k1, w.param_k3>>]

\* The schemes whose init() and scoring methods are modelled.
Scored == {"bool", "coord", "dicecoeff", "tfidf"}

\* Weight::init_(stats, query_length, term, wqf, factor, ...): fills the
\* snapshot, the per-shard bounds only if declared, then calls init(factor).
init_stats(w, stats, factor) ==
    LET filled ==
            [w EXCEPT
                !.inited = TRUE,
                !.factor = factor,
                !.query_length_ = stats.query_length,
                !.wqf_ = stats.wqf,
                !.termfreq_ = stats.termfreq,
                !.collection_size_ = stats.collection_size,
                !.average_length_ = stats.average_length,
                !.unique_terms_lower_bound_ =
                    IF FlagBits.UNIQUE_TERMS_MIN \subseteq w.stats_needed
                    THEN stats.unique_terms_lower_bound ELSE 0,
                !.wdf_upper_bound_ =
                    IF FlagBits.WDF_MAX \subseteq w.stats_needed
                    THEN stats.wdf_upper_bound ELSE 0]
    IN  CASE w.scheme = "bool" -> BoolWeight_init(filled, factor)
          [] w.scheme = "coord" -> CoordWeight_init(filled, factor)
          [] w.scheme = "dicecoeff" -> DiceCoeffWeight_init(filled, factor)
          [] w.scheme = "tfidf" -> TfIdfWeight_init(filled, factor)
          [] w.scheme = "lmjm" -> LMJMWeight_init(filled, factor)
          [] w.scheme = "bm25" -> BM25Weight_init(filled, factor)

\* FooWeight::clone() const { return new FooWeight(a, b); }: the copy is
\* built by the constructor from the stored parameters.  TradWeight does
\* not override clone(), so its copy is the BM25Weight that
\* BM25Weight::clone() builds.
Weight_clone(w) ==
    CASE w.scheme \in {"bm25", "trad"} ->
             BM25Weight_params(w.param_k1, w.param_k2, w.param_k3,
                               w.param_b, w.param_min_normlen)
      [] w.scheme = "bm25+" ->
             BM25PlusWeight_params(w.param_k1, w.param_k2, w.param_k3,
                                   w.param_b, w.param_min_normlen,
                                   w.param_delta)
      [] w.scheme = "lmjm" -> LMJMWeight(w.param_lambda)
      [] OTHER -> Scheme(w.scheme, FixedSchemes[w.scheme])

\* Virtual dispatch of get_sumpart and get_maxpart.
Weight_get_sumpart(w, wdf, doclen, uniqterm, wdfdocmax) ==
    CASE w.scheme = "bool" ->
             BoolWeight_get_sumpart(w, wdf, doclen, uniqterm, wdfdocmax)
      [] w.scheme = "coord" ->
             CoordWeight_get_sumpart(w, wdf, doclen, uniqterm, wdfdocmax)
      [] w.scheme = "dicecoeff" ->
             DiceCoeffWeight_get_sumpart(w, wdf, doclen, uniqterm, wdfdocmax)
      [] w.scheme = "tfidf" ->
             TfIdfWeight_get_sumpart(w, wdf, doclen, uniqterm, wdfdocmax)

Weight_get_maxpart(w) ==
    CASE w.scheme = "bool" -> BoolWeight_get_maxpart(w)
      [] w.scheme = "coord" -> CoordWeight_get_maxpart(w)
      [] w.scheme = "dicecoeff" -> DiceCoeffWeight_get_maxpart(w)
      [] w.scheme = "tfidf" -> TfIdfWeight_get_maxpart(w)

\* ------------------------------------------------------------------ state
VARIABLES
    weights,        \* heap of Weight instances, by instance id
    handed,         \* how many times each instance was passed to set_weight
    calls,          \* the need_stat calls made on instance 1, in order
    stats_at_init,  \* stats_needed of instance 1 when init_() ran
    wt,             \* SynonymPostList::wt (NULL or an instance id)
    want_wdf,       \* SynonymPostList::want_wdf
    want_wdfdocmax, \* SynonymPostList::want_wdfdocmax
    needs_doclen,   \* SynonymPostList::needs_doclen
    alive,          \* the SynonymPostList has not been destroyed
    pl_pos,         \* position of the child pl: 0 before the start,
                    \* a docid, or AtEnd
    pl_pos2,        \* position of the child in a second run
    pl_wdf,         \* child's (approximated) wdf for each document
    doclength,      \* PostListTree::get_doclength for each document
    last,           \* the last call made on the combinator and what it
                    \* handed to its collaborators
    sc,             \* a scheme instance: its parameters, declared set,
                    \* statistics snapshot, and the last scoring call
    clones,         \* heap of scheme instances, by address: the prototype
                    \* and the copies clone() allocated
    shards,         \* each shard executor: the clone it holds, what it
                    \* initialised it with, and the last score it got
    registry,       \* Registry: scheme name -> prototype instance
    outcome         \* the last serialise/unserialise/create call and how
                    \* it ended

vars == <<weights, handed, calls, stats_at_init, wt, want_wdf,
          want_wdfdocmax, needs_doclen, alive, pl_pos, pl_pos2, pl_wdf,
          doclength, last, sc, clones, shards, registry, outcome>>

factoryVars == <<clones, shards, registry, outcome>>
schemeVars == <<sc, factoryVars>>

weightVars == <<weights, handed, calls, stats_at_init>>
flagVars == <<want_wdf, want_wdfdocmax, needs_doclen>>
dbVars == <<pl_wdf, doclength>>

Unallocated ==
    [state |-> "unallocated", stats_needed |-> {}, inited |-> FALSE,
     maxpart |-> 0, deletes |-> 0]

\* A newly constructed instance with declared set stats_needed.
Constructed(stats_needed) ==
    [state |-> "live", stats_needed |-> stats_needed, inited |-> FALSE,
     maxpart |-> 0, deletes |-> 0]

\* init_(): fills the statistics snapshot and calls init(factor); the bound
\* get_maxpart() returns from then on is maxpart.  stats_needed is not
\* touched.
init_(w, maxpart) == [w EXCEPT !.inited = TRUE, !.maxpart = maxpart]

\* Weight::get_maxpart() of an initialised instance.
get_maxpart(w) == w.maxpart

\* delete p: no effect on a null pointer; the storage of a deleted instance
\* holds nothing that can be relied on.
Delete(heap, p) ==
    IF p = NULL THEN heap
    ELSE [heap EXCEPT ![p] = [state |-> "deleted", stats_needed |-> {},
                              inited |-> FALSE, maxpart |-> 0,
                              deletes |-> @.deletes + 1]]

NoCall ==
    [op |-> "none", from |-> 0, did |-> 0, w_min |-> 0, w_min2 |-> 0,
     read_wdf |-> FALSE, read_doclen |-> FALSE,
     arg_doclen |-> 0, arg_unique_terms |-> 0, arg_wdfdocmax |-> 0,
     wdf |-> 0, doclen |-> 0, uniqterms |-> 0, wdfdocmax |-> 0,
     child_subqs |-> 0, ret |-> 0]

\* ------------------------------------------ prototype, clones and shards
\* The shard executors that evaluate one query in parallel, and the
\* addresses of the scheme instances: the prototype's and one per clone.
Executors == {1, 2}
Prototype == 1
ObjIds == 1..(1 + Cardinality(Executors))

\* An executor that holds no clone yet.
NoShard ==
    [wt |-> NULL, inited |-> FALSE, stats |-> << >>, factor |-> 0,
     op |-> "none", wdf |-> 0, doclen |-> 0, uniqterm |-> 0,
     wdfdocmax |-> 0, ret |-> Value(0, 1)]

\* No name/serialise/unserialise/create call made yet.  A call records the
\* instance it was made on (this), its argument, the string (ret) or the
\* instance (made) it returned, and the exception it threw.
NoOutcome ==
    [op |-> "none", this |-> NoScheme, arg |-> << >>, threw |-> "none",
     ret |-> "", made |-> NoScheme]

\* A registry holding a default-constructed prototype of five built-in
\* schemes, each under its name().
Registry ==
    [name \in {"bool", "coord", "dicecoeff", "bm25", "bm25+"} |->
        IF name = "bm25" THEN BM25Weight_default
        ELSE IF name = "bm25+" THEN BM25PlusWeight_default
        ELSE Scheme(name, FixedSchemes[name])]

InitFactory ==
    /\ clones = [p \in ObjIds |-> NoScheme]
    /\ shards = [e \in Executors |-> NoShard]
    /\ registry = Registry
    /\ outcome = NoOutcome

\* The address "new" returns: the lowest one no instance lives at.
NewObj(heap) ==
    CHOOSE p \in ObjIds : /\ heap[p].scheme = "none"
                          /\ \A q \in ObjIds : q < p =>
                                 heap[q].scheme # "none"

\* clone() handing out the instance it was called on.
clone_this(heap, this) == [heap |-> heap, ret |-> this]

\* this->clone(): allocates the copy at a new address and returns that
\* address; the instance it is called on is const.
clone(heap, this) ==
    LET p == NewObj(heap)
    IN  [heap |-> [heap EXCEPT ![p] = Weight_clone(heap[this])], ret |-> p]

\* The next unallocated instance id (MaxWeights + 1 when none is left).
NewId ==
    IF \E i \in Ids : weights[i].state = "unallocated"
    THEN CHOOSE i \in Ids : /\ weights[i].state = "unallocated"
                            /\ \A j \in Ids : j < i =>
                                   weights[j].state # "unallocated"
    ELSE MaxWeights + 1

\* ----------------------------------------------------- child posting list
\* pl->next(w_min): the next document whose contribution (its wdf here) can
\* still reach w_min.
WrapperPostList_next(pos, w_min) ==
    LET later == {d \in Docs : d > pos /\ pl_wdf[d] >= w_min}
    IN  IF later = {} THEN AtEnd
        ELSE CHOOSE d \in later : \A e \in later : d <= e

\* pl->skip_to(did, w_min): the first such document at or after did, never
\* moving backwards.
WrapperPostList_skip_to(pos, did, w_min) ==
    LET later == {d \in Docs : d >= did /\ d >= pos /\ pl_wdf[d] >= w_min}
    IN  IF later = {} THEN AtEnd
        ELSE CHOOSE d \in later : \A e \in later : d <= e

\* -------------------------------------------------------- SynonymPostList
\* next handing its own threshold down to the child.
SynonymPostList_next_w_min(pos, w_min) == WrapperPostList_next(pos, w_min)

\* SynonymPostList::next(w_min): RETURN(WrapperPostList::next(0.0)).
SynonymPostList_next(pos, w_min) == WrapperPostList_next(pos, 0)

\* SynonymPostList::skip_to(did, w_min):
\* RETURN(WrapperPostList::skip_to(did, 0.0)).
SynonymPostList_skip_to(pos, did, w_min) == WrapperPostList_skip_to(pos, did, 0)

\* set_weight without "delete wt".
set_weight_leak(heap, wt_) ==
    /\ weights' = heap
    /\ wt' = wt_
    /\ want_wdf' = get_sumpart_needs_wdf_(weights'[wt_].stats_needed)
    /\ want_wdfdocmax' =
           get_sumpart_needs_wdfdocmax_(weights'[wt_].stats_needed)
    /\ handed' = [handed EXCEPT ![wt_] = @ + 1]
    /\ last' = [NoCall EXCEPT !.op = "set_weight"]
    /\ UNCHANGED <<schemeVars, calls, stats_at_init, needs_doclen, alive, pl_pos,
                   pl_pos2, pl_wdf, doclength>>

\* SynonymPostList::set_weight(wt_) on the heap `heap`.  Reading the flags
\* of an instance that has just been deleted is undefined: either value.
set_weight(heap, wt_) ==
    /\ weights' = Delete(heap, wt)
    /\ wt' = wt_
    /\ IF weights'[wt_].state = "live"
       THEN /\ want_wdf' = get_sumpart_needs_wdf_(weights'[wt_].stats_needed)
            /\ want_wdfdocmax' =
                   get_sumpart_needs_wdfdocmax_(weights'[wt_].stats_needed)
       ELSE /\ want_wdf' \in BOOLEAN
            /\ want_wdfdocmax' \in BOOLEAN
    /\ handed' = [handed EXCEPT ![wt_] = @ + 1]
    /\ last' = [NoCall EXCEPT !.op = "set_weight"]
    /\ UNCHANGED <<schemeVars, calls, stats_at_init, needs_doclen, alive, pl_pos,
                   pl_pos2, pl_wdf, doclength>>

\* The query compiler builds the combinator for the strategy it installs
\* first: a clone of the configured scheme, initialised, is handed over.
InstallWeight ==
    \E s \in Schemes, m \in 0..MaxPart :
        /\ alive /\ wt = NULL /\ NewId \in Ids
        /\ needs_doclen = get_sumpart_needs_doclength_(s)
        /\ set_weight([weights EXCEPT ![NewId] = init_(Constructed(s), m)],
                      NewId)

\* The compiled tree is re-scored by another strategy.
ReplaceWeight ==
    \E s \in Schemes, m \in 0..MaxPart :
        /\ alive /\ wt # NULL /\ NewId \in Ids
        /\ set_weight([weights EXCEPT ![NewId] = init_(Constructed(s), m)],
                      NewId)

\* SynonymPostList::~SynonymPostList(): delete wt.
Destroy ==
    /\ alive
    /\ weights' = Delete(weights, wt)
    /\ alive' = FALSE
    /\ last' = [NoCall EXCEPT !.op = "destroy"]
    /\ UNCHANGED <<schemeVars, handed, calls, stats_at_init, wt, want_wdf,
                   want_wdfdocmax, needs_doclen, pl_pos, pl_pos2, pl_wdf,
                   doclength>>

next(w_min) ==
    /\ alive /\ pl_pos < AtEnd
    /\ pl_pos' = SynonymPostList_next(pl_pos, w_min)
    /\ last' = [NoCall EXCEPT !.op = "next", !.from = pl_pos,
                              !.w_min = w_min]
    /\ UNCHANGED <<schemeVars, weightVars, wt, flagVars, alive, pl_pos2, dbVars>>

skip_to(did, w_min) ==
    /\ alive /\ pl_pos < AtEnd
    /\ pl_pos' = SynonymPostList_skip_to(pl_pos, did, w_min)
    /\ last' = [NoCall EXCEPT !.op = "skip_to", !.from = pl_pos,
                              !.did = did, !.w_min = w_min]
    /\ UNCHANGED <<schemeVars, weightVars, wt, flagVars, alive, pl_pos2, dbVars>>

\* get_weight fetching the child's wdf and the document length whether or
\* not the strategy wants them.
get_weight_call_eager(f, child_wdf, tree_doclen, doclen, unique_terms, wdfdocmax) ==
    LET wdf1 == IF f.needs_doclen /\ child_wdf > doclen
                THEN doclen ELSE child_wdf
        doclen1 == IF doclen = 0 THEN tree_doclen ELSE doclen
    IN  [NoCall EXCEPT !.op = "get_weight",
                       !.read_wdf = TRUE, !.read_doclen = (doclen = 0),
                       !.arg_doclen = doclen, !.arg_wdfdocmax = wdfdocmax,
                       !.arg_unique_terms = unique_terms,
                       !.wdf = wdf1, !.doclen = doclen1,
                       !.uniqterms = unique_terms,
                       !.wdfdocmax =
                           IF f.want_wdfdocmax THEN doclen1 ELSE wdfdocmax]

\* get_weight without the "if (want_wdfdocmax)" block.
get_weight_call_passthrough(f, child_wdf, tree_doclen, doclen, unique_terms, wdfdocmax) ==
    LET wdf0 == IF f.want_wdf THEN child_wdf ELSE 0
        wdf1 == IF f.want_wdf /\ f.needs_doclen /\ wdf0 > doclen
                THEN doclen ELSE wdf0
    IN  [NoCall EXCEPT !.op = "get_weight",
                       !.read_wdf = f.want_wdf,
                       !.arg_doclen = doclen, !.arg_wdfdocmax = wdfdocmax,
                       !.arg_unique_terms = unique_terms,
                       !.wdf = wdf1, !.doclen = doclen,
                       !.uniqterms = unique_terms,
                       !.wdfdocmax = wdfdocmax]

\* What SynonymPostList::get_weight(doclen, unique_terms, wdfdocmax) hands
\* to wt->get_sumpart, given the combinator's flags f (want_wdf,
\* needs_doclen, want_wdfdocmax), the child's wdf and the document length
\* the posting-list tree would return.
get_weight_call(f, child_wdf, tree_doclen, doclen, unique_terms, wdfdocmax) ==
    LET wdf0 == IF f.want_wdf THEN child_wdf ELSE 0
        wdf1 == IF f.want_wdf /\ f.needs_doclen /\ wdf0 > doclen
                THEN doclen ELSE wdf0
        lookup == f.want_wdfdocmax /\ doclen = 0
        doclen1 == IF lookup THEN tree_doclen ELSE doclen
        wdfdocmax1 == IF f.want_wdfdocmax THEN doclen1 ELSE wdfdocmax
    IN  [NoCall EXCEPT !.op = "get_weight",
                       !.read_wdf = f.want_wdf, !.read_doclen = lookup,
                       !.arg_doclen = doclen, !.arg_wdfdocmax = wdfdocmax,
                       !.arg_unique_terms = unique_terms,
                       !.wdf = wdf1, !.doclen = doclen1,
                       !.uniqterms = unique_terms,
                       !.wdfdocmax = wdfdocmax1]

get_weight(doclen, unique_terms, wdfdocmax) ==
    /\ alive /\ wt # NULL /\ pl_pos \in Docs
    /\ last' = get_weight_call([want_wdf |-> want_wdf,
                                needs_doclen |-> needs_doclen,
                                want_wdfdocmax |-> want_wdfdocmax],
                               pl_wdf[pl_pos], doclength[pl_pos],
                               doclen, unique_terms, wdfdocmax)
    /\ UNCHANGED <<schemeVars, weightVars, wt, flagVars, alive, pl_pos, pl_pos2,
                   dbVars>>

\* recalc_maxweight forwarding to the child, as WrapperPostList does.
SynonymPostList_recalc_maxweight_child(w, child_max) == child_max

\* SynonymPostList::recalc_maxweight(): RETURN(wt->get_maxpart()).
\* child_max is what the child's own recalc_maxweight() would return.
SynonymPostList_recalc_maxweight(w, child_max) == get_maxpart(w)

recalc_maxweight ==
    /\ alive /\ wt # NULL
    /\ last' = [NoCall EXCEPT
                   !.op = "recalc_maxweight",
                   !.ret = SynonymPostList_recalc_maxweight(weights[wt],
                                                            MaxWdf)]
    /\ UNCHANGED <<schemeVars, weightVars, wt, flagVars, alive, pl_pos, pl_pos2,
                   dbVars>>

\* count_matching_subqs forwarding to the child, as WrapperPostList does.
SynonymPostList_count_matching_subqs_child(child_subqs) == child_subqs

\* SynonymPostList::count_matching_subqs(): return 1.  child_subqs is what
\* the child's own count_matching_subqs() would return.
SynonymPostList_count_matching_subqs(child_subqs) == 1

count_matching_subqs(child_subqs) ==
    /\ alive
    /\ last' = [NoCall EXCEPT
                   !.op = "count_matching_subqs",
                   !.child_subqs = child_subqs,
                   !.ret = SynonymPostList_count_matching_subqs(child_subqs)]
    /\ UNCHANGED <<schemeVars, weightVars, wt, flagVars, alive, pl_pos, pl_pos2,
                   dbVars>>

\* The doclen values the match loop passes for the current document: its
\* length, which is fetched whenever the strategy of the node declared
\* DOC_LENGTH; otherwise 0 may be passed instead.
DocLengthArgs ==
    IF pl_pos \in Docs /\ wt # NULL
    THEN {doclength[pl_pos]} \cup
         (IF get_sumpart_needs_doclength_(weights[wt].stats_needed)
          THEN {} ELSE {0})
    ELSE {}

\* ------------------------------------------------------------------ Spec
\* The combinator as the query compiler leaves it: no strategy installed
\* yet, the child before its first document.
Init ==
    /\ weights = [i \in Ids |-> Unallocated]
    /\ handed = [i \in Ids |-> 0]
    /\ calls = << >>
    /\ stats_at_init = {}
    /\ wt = NULL
    /\ want_wdf = FALSE
    /\ want_wdfdocmax = FALSE
    /\ needs_doclen \in BOOLEAN
    /\ alive = TRUE
    /\ pl_pos = 0
    /\ pl_pos2 = 0
    /\ pl_wdf \in [Docs -> 0..MaxWdf]
    /\ doclength \in DocLengths
    /\ last = NoCall
    /\ sc = NoScheme
    /\ InitFactory

Next ==
    \/ InstallWeight
    \/ ReplaceWeight
    \/ Destroy
    \/ \E w_min \in 0..MaxWdf : next(w_min)
    \/ \E did \in Docs, w_min \in 0..MaxWdf : skip_to(did, w_min)
    \/ \E doclen \in DocLengthArgs,
          unique_terms \in 0..MaxUniq, wdfdocmax \in 0..MaxWdf :
           get_weight(doclen, unique_terms, wdfdocmax)
    \/ recalc_maxweight
    \/ \E child_subqs \in {1, 2, MaxSubqs} : count_matching_subqs(child_subqs)

Spec == Init /\ [][Next]_vars

\* -------------------------------------------------------------- SpecNeed
\* One Weight instance from its construction on: the need_stat calls of
\* its constructor, init_(), and need_stat calls made afterwards (need_stat
\* is a protected non-const member: a subclass can call it from init()).
NeedFlags ==
    {"COLLECTION_SIZE", "RSET_SIZE", "QUERY_LENGTH", "WQF", "TERMFREQ",
     "RELTERMFREQ", "COLLECTION_FREQ", "WDF", "DOC_LENGTH", "UNIQUE_TERMS",
     "WDF_DOC_MAX", "IS_BOOLWEIGHT_"}

InitNeed ==
    /\ weights = [i \in Ids |-> IF i = 1 THEN Constructed(Weight)
                                ELSE Unallocated]
    /\ handed = [i \in Ids |-> 0]
    /\ calls = << >>
    /\ stats_at_init = {}
    /\ wt = NULL
    /\ want_wdf = FALSE
    /\ want_wdfdocmax = FALSE
    /\ needs_doclen = FALSE
    /\ alive = TRUE
    /\ pl_pos = 0
    /\ pl_pos2 = 0
    /\ pl_wdf = [d \in Docs |-> 0]
    /\ doclength = [d \in Docs |-> 1]
    /\ last = NoCall
    /\ sc = NoScheme
    /\ InitFactory

DeclareNeed(flag) ==
    /\ Len(calls) < MaxCalls
    /\ weights' = [weights EXCEPT
                      ![1].stats_needed = need_stat(@, flag)]
    /\ calls' = Append(calls, flag)
    /\ UNCHANGED <<schemeVars, handed, stats_at_init, wt, flagVars, alive, pl_pos,
                   pl_pos2, dbVars, last>>

Initialise(maxpart) ==
    /\ ~weights[1].inited
    /\ weights' = [weights EXCEPT ![1] = init_(@, maxpart)]
    /\ stats_at_init' = weights[1].stats_needed
    /\ UNCHANGED <<schemeVars, handed, calls, wt, flagVars, alive, pl_pos, pl_pos2,
                   dbVars, last>>

NextNeed ==
    \/ \E flag \in NeedFlags : DeclareNeed(flag)
    \/ \E maxpart \in 0..MaxPart : Initialise(maxpart)

SpecNeed == InitNeed /\ [][NextNeed]_vars

\* need_stat called with any enumerator of stat_flags, a few times.
MaxDeclared == 3

DeclareAny(flag) ==
    /\ Len(calls) < MaxDeclared
    /\ DeclareNeed(flag)

NextFlags == \E flag \in DOMAIN stat_flags : DeclareAny(flag)

SpecFlags == InitNeed /\ [][NextFlags]_vars

\* -------------------------------------------------------------- SpecPair
\* Two runs of the combinator over the same child posting list, given the
\* same calls with possibly different thresholds.
next_pair(w_min, w_min2) ==
    /\ alive /\ pl_pos < AtEnd /\ pl_pos2 < AtEnd
    /\ pl_pos' = SynonymPostList_next(pl_pos, w_min)
    /\ pl_pos2' = SynonymPostList_next(pl_pos2, w_min2)
    /\ last' = [NoCall EXCEPT !.op = "next", !.from = pl_pos,
                              !.w_min = w_min, !.w_min2 = w_min2]
    /\ UNCHANGED <<schemeVars, weightVars, wt, flagVars, alive, dbVars>>

skip_to_pair(did, w_min, w_min2) ==
    /\ alive /\ pl_pos < AtEnd /\ pl_pos2 < AtEnd
    /\ pl_pos' = SynonymPostList_skip_to(pl_pos, did, w_min)
    /\ pl_pos2' = SynonymPostList_skip_to(pl_pos2, did, w_min2)
    /\ last' = [NoCall EXCEPT !.op = "skip_to", !.from = pl_pos,
                              !.did = did,
                              !.w_min = w_min, !.w_min2 = w_min2]
    /\ UNCHANGED <<schemeVars, weightVars, wt, flagVars, alive, dbVars>>

NextPair ==
    \/ \E w_min \in 0..MaxWdf, w_min2 \in 0..MaxWdf :
           next_pair(w_min, w_min2)
    \/ \E did \in Docs, w_min \in 0..MaxWdf, w_min2 \in 0..MaxWdf :
           skip_to_pair(did, w_min, w_min2)

SpecPair == Init /\ [][NextPair]_vars

\* ------------------------------------------------------------ SpecRebind
\* The combinator's ownership of its strategy, with set_weight also given
\* the instance the combinator already holds.
RebindHeld ==
    /\ alive /\ wt # NULL /\ weights[wt].state = "live"
    /\ set_weight(weights, wt)

NextRebind ==
    \/ InstallWeight
    \/ ReplaceWeight
    \/ RebindHeld
    \/ Destroy

SpecRebind == Init /\ [][NextRebind]_vars

\* ------------------------------------------------------------ SpecScheme
\* One instance of a built-in scheme: its construction, init_(), and the
\* scoring calls made on it once initialised.
combinatorVars ==
    <<weights, handed, calls, stats_at_init, wt, want_wdf, want_wdfdocmax,
      needs_doclen, alive, pl_pos, pl_pos2, pl_wdf, doclength, last>>

InitScheme ==
    /\ weights = [i \in Ids |-> Unallocated]
    /\ handed = [i \in Ids |-> 0]
    /\ calls = << >>
    /\ stats_at_init = {}
    /\ wt = NULL
    /\ want_wdf = FALSE
    /\ want_wdfdocmax = FALSE
    /\ needs_doclen = FALSE
    /\ alive = TRUE
    /\ pl_pos = 0
    /\ pl_pos2 = 0
    /\ pl_wdf = [d \in Docs |-> 0]
    /\ doclength = [d \in Docs |-> 1]
    /\ last = NoCall
    /\ sc = NoScheme
    /\ InitFactory

Construct(w) ==
    /\ sc.scheme = "none"
    /\ sc' = w
    /\ UNCHANGED <<combinatorVars, factoryVars>>

InitialiseScheme(stats, factor) ==
    /\ sc.scheme \in Scored \cup {"lmjm"}
    /\ ~sc.inited
    /\ stats \in StatsFor(sc.scheme)
    /\ sc' = init_stats(sc, stats, factor)
    /\ UNCHANGED <<combinatorVars, factoryVars>>

\* The scoring methods are const: a call leaves the instance as init_() left
\* it, so every call is made on the instance in that state.  A document has
\* at least as many unique terms as the shard's lower bound.
GetSumpart(wdf, doclen, uniqterm, wdfdocmax) ==
    /\ sc.inited /\ sc.scheme \in Scored /\ sc.op = "none"
    /\ uniqterm >= sc.unique_terms_lower_bound_
    /\ sc' = [sc EXCEPT
                 !.op = "get_sumpart", !.wdf = wdf, !.doclen = doclen,
                 !.uniqterm = uniqterm, !.wdfdocmax = wdfdocmax,
                 !.ret = Weight_get_sumpart(sc, wdf, doclen, uniqterm,
                                            wdfdocmax)]
    /\ UNCHANGED <<combinatorVars, factoryVars>>

GetMaxpart ==
    /\ sc.inited /\ sc.scheme \in Scored /\ sc.op = "none"
    /\ sc' = [sc EXCEPT
                 !.op = "get_maxpart", !.wdf = 0, !.doclen = 0,
                 !.uniqterm = 0, !.wdfdocmax = 0,
                 !.ret = Weight_get_maxpart(sc)]
    /\ UNCHANGED <<combinatorVars, factoryVars>>

GetSumextra(doclen, uniqterm, wdfdocmax) ==
    /\ sc.inited /\ sc.scheme \in Scored /\ sc.op = "none"
    /\ uniqterm >= sc.unique_terms_lower_bound_
    /\ sc' = [sc EXCEPT
                 !.op = "get_sumextra", !.wdf = 0, !.doclen = doclen,
                 !.uniqterm = uniqterm, !.wdfdocmax = wdfdocmax,
                 !.ret = Weight_get_sumextra(sc, doclen, uniqterm, wdfdocmax)]
    /\ UNCHANGED <<combinatorVars, factoryVars>>

GetMaxextra ==
    /\ sc.inited /\ sc.scheme \in Scored /\ sc.op = "none"
    /\ sc' = [sc EXCEPT
                 !.op = "get_maxextra", !.wdf = 0, !.doclen = 0,
                 !.uniqterm = 0, !.wdfdocmax = 0,
                 !.ret = Weight_get_maxextra(sc)]
    /\ UNCHANGED <<combinatorVars, factoryVars>>

NextScheme ==
    \/ /\ sc.scheme = "none"
       /\ \E w \in Constructions : Construct(w)
    \/ /\ ~sc.inited
       /\ \E stats \in StatsFor(sc.scheme), factor \in 0..MaxFactor :
              InitialiseScheme(stats, factor)
    \/ /\ sc.inited /\ sc.op = "none"
       /\ \E wdf \in 0..MaxWdf, doclen \in 0..MaxDocLen,
             uniqterm \in 0..MaxUniqueTerms, wdfdocmax \in 0..MaxWdf :
              GetSumpart(wdf, doclen, uniqterm, wdfdocmax)
    \/ GetMaxpart
    \/ /\ sc.inited /\ sc.op = "none"
       /\ \E doclen \in 0..MaxDocLen, uniqterm \in 0..MaxUniqueTerms,
             wdfdocmax \in 0..MaxWdf :
              GetSumextra(doclen, uniqterm, wdfdocmax)
    \/ GetMaxextra

SpecScheme == InitScheme /\ [][NextScheme]_vars

\* ---------------------------------------------------------------------
\* One prototype, cloned once per shard; each executor initialises and
\* scores its own clone, in any interleaving with the other executors.
\* The statistics of a shard: the within-query frequency and the average
\* length range, the other statistics the scheme reads are pinned.
ShardStats(scheme) ==
    {s \in StatsFor(scheme) :
        /\ s.query_length \in {0, MaxWqf + 1}
        /\ s.termfreq \in {0, 1}
        /\ s.collection_size \in {0, MaxCollection}
        /\ s.unique_terms_lower_bound \in {0, 1}
        /\ s.wdf_upper_bound \in {0, MaxWdf}}

\* The prototypes followed through initialisation and scoring.
ShardedPrototypes ==
    {Scheme(name, FixedSchemes[name]) : name \in Scored}
        \cup {BM25Weight_default,
              BM25Weight_params(Double(10), Double(5), Double(10), Double(0),
                                Double(5))}

\* Query construction configures the prototype.
ConfigurePrototype(w) ==
    /\ clones[Prototype].scheme = "none"
    /\ clones' = [clones EXCEPT ![Prototype] = w]
    /\ outcome' = [NoOutcome EXCEPT !.op = "construct", !.made = w]
    /\ UNCHANGED <<combinatorVars, sc, shards, registry>>

\* An executor takes its clone of the prototype.
CloneForShard(e) ==
    /\ clones[Prototype].scheme # "none"
    /\ shards[e].wt = NULL
    /\ LET r == clone(clones, Prototype)
       IN  /\ clones' = r.heap
           /\ shards' = [shards EXCEPT ![e].wt = r.ret]
    /\ UNCHANGED <<combinatorVars, sc, registry, outcome>>

\* An executor initialises the clone it holds, once.
InitShard(e, stats, factor) ==
    /\ shards[e].wt # NULL
    /\ ~shards[e].inited
    /\ clones[Prototype] \in ShardedPrototypes
    /\ stats \in ShardStats(clones[shards[e].wt].scheme)
    /\ clones' = [clones EXCEPT
                      ![shards[e].wt] = init_stats(@, stats, factor)]
    /\ shards' = [shards EXCEPT
                      ![e].inited = TRUE, ![e].stats = stats,
                      ![e].factor = factor]
    /\ UNCHANGED <<combinatorVars, sc, registry, outcome>>

\* An executor scores a document with its clone (const: the heap is not
\* written), or asks it for its bound.
ScoreShard(e, wdf, doclen, uniqterm, wdfdocmax) ==
    /\ shards[e].inited /\ shards[e].op = "none"
    /\ clones[shards[e].wt].scheme \in Scored
    /\ shards' = [shards EXCEPT
                      ![e].op = "get_sumpart", ![e].wdf = wdf,
                      ![e].doclen = doclen, ![e].uniqterm = uniqterm,
                      ![e].wdfdocmax = wdfdocmax,
                      ![e].ret = Weight_get_sumpart(clones[shards[e].wt],
                                                    wdf, doclen, uniqterm,
                                                    wdfdocmax)]
    /\ UNCHANGED <<combinatorVars, sc, clones, registry, outcome>>

BoundShard(e) ==
    /\ shards[e].inited /\ shards[e].op = "none"
    /\ clones[shards[e].wt].scheme \in Scored
    /\ shards' = [shards EXCEPT
                      ![e].op = "get_maxpart",
                      ![e].ret = Weight_get_maxpart(clones[shards[e].wt])]
    /\ UNCHANGED <<combinatorVars, sc, clones, registry, outcome>>

NextClone ==
    \/ /\ clones[Prototype].scheme = "none"
       /\ \E w \in Constructions : ConfigurePrototype(w)
    \/ \E e \in Executors : CloneForShard(e)
    \/ \E e \in Executors :
           /\ shards[e].wt # NULL /\ ~shards[e].inited
           /\ \E stats \in ShardStats(clones[shards[e].wt].scheme),
                 factor \in 0..MaxFactor :
                  InitShard(e, stats, factor)
    \/ \E e \in Executors :
           /\ shards[e].inited /\ shards[e].op = "none"
           /\ \E wdf \in 0..MaxWdf :
                  ScoreShard(e, wdf, MaxDocLen, MaxUniqueTerms, MaxWdf)
    \/ \E e \in Executors : BoundShard(e)

SpecClone == InitScheme /\ [][NextClone]_vars

\* ---------------------------------------------------------------------
\* name(), serialise(), unserialise() and create_from_parameters() called
\* on an instance of a user subclass that overrides none of them, and
\* Weight::create() called with a registry.
\* Most parameter tokens of a scheme string.
MaxParams == 6

\* The words of a scheme string: scheme names, one of them not registered,
\* and parameter tokens, one of them not a number.
NameTokens == DOMAIN Registry \cup {"nosuch"}
ParamTokens == {"1.5", "-0.5", "x"}

\* The number a parameter token is parsed to (NaN here: not a number).
ParseDouble(token) ==
    CASE token = "1.5" -> Double(15)
      [] token = "-0.5" -> Double(-5)
      [] OTHER -> NaN

IsNumber(token) == token \in {"1.5", "-0.5"}

RECURSIVE SeqsUpTo(_, _)
SeqsUpTo(S, n) ==
    IF n = 0 THEN {<< >>}
    ELSE LET shorter == SeqsUpTo(S, n - 1)
         IN  shorter \cup {Append(q, x) : q \in shorter, x \in S}

\* The scheme strings passed to Weight::create, as their whitespace-
\* separated tokens: empty, or a name followed by parameter tokens.
SchemeStrings ==
    {<< >>} \cup {<<name>> \o params :
                    name \in NameTokens,
                    params \in SeqsUpTo(ParamTokens, MaxParams)}

\* A call that returned a string, returned an instance, or threw.
Returned(s) == [threw |-> "none", ret |-> s, made |-> NoScheme]
Made(w) == [threw |-> "none", ret |-> "", made |-> w]
Threw(error) == [threw |-> error, ret |-> "", made |-> NoScheme]

\* Weight::name(): the default implementation returns an empty string.
Weight_name(w) == Returned("")

\* Weight::serialise() returning an empty string where it should throw.
Weight_serialise_empty(w) == Returned("")

\* Weight::serialise(), Weight::unserialise(serialised) and
\* Weight::create_from_parameters(params): the default implementations
\* throw Xapian::UnimplementedError.
Weight_serialise(w) == Threw("UnimplementedError")

Weight_unserialise(w, serialised) == Threw("UnimplementedError")

Weight_create_from_parameters(w, params) == Threw("UnimplementedError")

\* The i-th parameter of a parameter string, or its default when the string
\* has fewer parameters.
Param(params, i, default) ==
    IF i <= Len(params) THEN ParseDouble(params[i]) ELSE default

\* BM25Weight::create_from_parameters accepting tokens that are no numbers
\* (they count as the default).
BM25Weight_create_from_parameters_lenient(params) ==
    IF Len(params) > 5 THEN Threw("malformed-parameters")
    ELSE LET P(i, d) == IF i <= Len(params) /\ IsNumber(params[i])
                        THEN ParseDouble(params[i]) ELSE d
         IN  Made(BM25Weight_params(P(1, Double(10)), P(2, Double(0)),
                                    P(3, Double(10)), P(4, Double(5)),
                                    P(5, Double(5))))

\* BM25Weight::create_from_parameters(params): no parameter gives
\* BM25Weight(); otherwise up to five numbers k1 k2 k3 b min_normlen, those
\* left out at their defaults; anything else is a malformed parameter
\* string.
BM25Weight_create_from_parameters(params) ==
    IF params = << >> THEN Made(BM25Weight_default)
    ELSE IF \/ Len(params) > 5
            \/ \E i \in 1..Len(params) : ~IsNumber(params[i])
    THEN Threw("malformed-parameters")
    ELSE Made(BM25Weight_params(Param(params, 1, Double(10)),
                                Param(params, 2, Double(0)),
                                Param(params, 3, Double(10)),
                                Param(params, 4, Double(5)),
                                Param(params, 5, Double(5))))

\* BM25PlusWeight::create_from_parameters(params): as for BM25Weight, with
\* delta as the sixth parameter.
BM25PlusWeight_create_from_parameters(params) ==
    IF params = << >> THEN Made(BM25PlusWeight_default)
    ELSE IF \/ Len(params) > 6
            \/ \E i \in 1..Len(params) : ~IsNumber(params[i])
    THEN Threw("malformed-parameters")
    ELSE Made(BM25PlusWeight_params(Param(params, 1, Double(10)),
                                    Param(params, 2, Double(0)),
                                    Param(params, 3, Double(10)),
                                    Param(params, 4, Double(5)),
                                    Param(params, 5, Double(5)),
                                    Param(params, 6, Double(10))))

\* create_from_parameters of a scheme without parameters (BoolWeight,
\* CoordWeight, DiceCoeffWeight): any parameter is malformed.
NoParams_create_from_parameters(w, params) ==
    IF params = << >> THEN Made(Scheme(w.scheme, FixedSchemes[w.scheme]))
    ELSE Threw("malformed-parameters")

\* Virtual dispatch of create_from_parameters.
create_from_parameters(w, params) ==
    CASE w.scheme = "bm25" -> BM25Weight_create_from_parameters(params)
      [] w.scheme = "bm25+" -> BM25PlusWeight_create_from_parameters(params)
      [] w.scheme \in {"bool", "coord", "dicecoeff"} ->
             NoParams_create_from_parameters(w, params)
      [] OTHER -> Weight_create_from_parameters(w, params)

\* Weight::create(scheme, reg): looks the first token up in the registry
\* and has the prototype found build the instance from the other tokens.
Weight_create(scheme, reg) ==
    IF scheme = << >> \/ Head(scheme) \notin DOMAIN reg
    THEN Threw("scheme-not-found")
    ELSE create_from_parameters(reg[Head(scheme)], Tail(scheme))

\* A call and how it ended.
Call(op, this, arg, result) ==
    [op |-> op, this |-> this, arg |-> arg, threw |-> result.threw,
     ret |-> result.ret, made |-> result.made]

\* The need_stat calls of the user subclasses considered.
UserFlags == {<< >>, <<"WDF">>, <<"WDF", "DOC_LENGTH">>}

ConstructUser(flags) ==
    /\ sc.scheme = "none"
    /\ sc' = Scheme("user", UserWeight(flags))
    /\ UNCHANGED <<combinatorVars, factoryVars>>

\* The methods are const and Weight::create is static with a const
\* registry: each call is made from the state construction left.
Name ==
    /\ sc.scheme = "user" /\ outcome.op = "none"
    /\ outcome' = Call("name", sc, << >>, Weight_name(sc))
    /\ UNCHANGED <<combinatorVars, sc, clones, shards, registry>>

Serialise ==
    /\ sc.scheme = "user" /\ outcome.op = "none"
    /\ outcome' = Call("serialise", sc, << >>, Weight_serialise(sc))
    /\ UNCHANGED <<combinatorVars, sc, clones, shards, registry>>

Unserialise(serialised) ==
    /\ sc.scheme = "user" /\ outcome.op = "none"
    /\ outcome' = Call("unserialise", sc, serialised,
                       Weight_unserialise(sc, serialised))
    /\ UNCHANGED <<combinatorVars, sc, clones, shards, registry>>

CreateFromParameters(params) ==
    /\ sc.scheme = "user" /\ outcome.op = "none"
    /\ outcome' = Call("create_from_parameters", sc, params,
                       create_from_parameters(sc, params))
    /\ UNCHANGED <<combinatorVars, sc, clones, shards, registry>>

Create(scheme) ==
    /\ outcome.op = "none"
    /\ outcome' = Call("create", NoScheme, scheme,
                       Weight_create(scheme, registry))
    /\ UNCHANGED <<combinatorVars, sc, clones, shards, registry>>

NextFactory ==
    \/ \E flags \in UserFlags : ConstructUser(flags)
    \/ Name
    \/ Serialise
    \/ /\ outcome.op = "none"
       /\ \E serialised \in SeqsUpTo(ParamTokens, 1) :
              Unserialise(serialised)
    \/ /\ outcome.op = "none"
       /\ \E params \in SeqsUpTo(ParamTokens, 1) :
              CreateFromParameters(params)
    \/ /\ outcome.op = "none"
       /\ \E scheme \in SchemeStrings : Create(scheme)

SpecFactory == InitScheme /\ [][NextFactory]_vars

\* ================================================================ claims
\* "w declares the statistic name": every bit of the enumerator is set.
Declares(w, name) ==
    /\ FlagBits[name] # {}
    /\ FlagBits[name] \subseteq w.stats_needed

\* C1: whenever the owned strategy declares both WDF and DOC_LENGTH, the wdf
\* get_weight hands to get_sumpart is min(child wdf, doclen) and so never
\* exceeds the doclen handed to the same call.
C1_WdfClampedToDoclen ==
    (/\ last.op = "get_weight"
     /\ Declares(weights[wt], "WDF")
     /\ Declares(weights[wt], "DOC_LENGTH"))
        => /\ last.wdf = Min(pl_wdf[pl_pos], last.doclen)
           /\ last.wdf <= last.doclen

\* C3: count_matching_subqs() returns 1 in every state of the combinator,
\* whatever the number of wrapped sub-queries its child reports.
C3_CountMatchingSubqsIsOne ==
    last.op = "count_matching_subqs" => last.ret = 1

C3_Witness ==
    /\ last.op = "count_matching_subqs"
    /\ last.child_subqs = MaxSubqs
    /\ last.ret = 1
    /\ wt # NULL /\ handed[2] = 1
    /\ pl_pos \in Docs

\* C4: two runs given the same next/skip_to calls with different thresholds
\* are at the same document, and each call leaves the combinator where its
\* child goes at threshold 0.
C4_PositionIndependentOfThreshold ==
    /\ pl_pos = pl_pos2
    /\ last.op = "next" => pl_pos = WrapperPostList_next(last.from, 0)
    /\ last.op = "skip_to" =>
           pl_pos = WrapperPostList_skip_to(last.from, last.did, 0)

C4_Witness ==
    /\ last.op = "next"
    /\ last.w_min # last.w_min2
    /\ pl_pos \in Docs
    /\ pl_wdf[pl_pos] < last.w_min
    /\ pl_pos = pl_pos2

\* The ownership discipline: the combinator holds a live instance once one
\* was handed to it, every other instance handed to it has been destroyed
\* exactly once, and after destruction of the combinator so has the last.
OwnershipHolds ==
    /\ (alive /\ \E i \in Ids : handed[i] > 0) =>
           (wt # NULL /\ weights[wt].state = "live")
    /\ \A i \in Ids :
           (handed[i] > 0 /\ (i # wt \/ ~alive)) => weights[i].deletes = 1
    /\ \A i \in Ids : weights[i].deletes <= 1

\* C5 as claimed: the ownership discipline holds for every argument of
\* set_weight, the instance the combinator currently holds included.
C5_OwnershipForEveryArgument == OwnershipHolds

\* C5 amended: the ownership discipline holds as long as every instance
\* handed to set_weight is one the combinator does not hold already.
C5_OwnershipForNewInstances ==
    (\A i \in Ids : handed[i] <= 1) => OwnershipHolds

C5_Witness ==
    /\ ~alive
    /\ \A i \in Ids : handed[i] = 1 /\ weights[i].deletes = 1

\* C6: want_wdf and want_wdfdocmax say whether the strategy the combinator
\* owns now declares WDF and WDF_DOC_MAX.
C6_FlagsDescribeOwnedStrategy ==
    (alive /\ wt # NULL) =>
        /\ want_wdf = Declares(weights[wt], "WDF")
        /\ want_wdfdocmax = Declares(weights[wt], "WDF_DOC_MAX")

C6_Witness ==
    /\ alive /\ wt = 2 /\ weights[1].state = "deleted"
    /\ Declares(weights[wt], "WDF_MAX")
    /\ want_wdf /\ ~want_wdfdocmax

\* C7: when the owned strategy declares WDF_DOC_MAX, get_sumpart is given the
\* document length as wdfdocmax (the doclen argument if non-zero, else the
\* length the posting-list tree returns); otherwise the caller's wdfdocmax.
C7_WdfDocMaxIsDocLength ==
    last.op = "get_weight" =>
        IF Declares(weights[wt], "WDF_DOC_MAX")
        THEN last.wdfdocmax = (IF last.arg_doclen # 0 THEN last.arg_doclen
                               ELSE doclength[pl_pos])
        ELSE last.wdfdocmax = last.arg_wdfdocmax

C7_Witness ==
    /\ last.op = "get_weight"
    /\ Declares(weights[wt], "WDF_DOC_MAX")
    /\ last.arg_doclen = 0
    /\ last.arg_wdfdocmax # doclength[pl_pos]
    /\ last.wdfdocmax = doclength[pl_pos]

\* C8: recalc_maxweight() returns get_maxpart() of the strategy the
\* combinator owns now.
C8_RecalcForwardsMaxpart ==
    last.op = "recalc_maxweight" => last.ret = weights[wt].maxpart

C8_Witness ==
    /\ last.op = "recalc_maxweight"
    /\ wt = 2 /\ weights[1].state = "deleted"
    /\ pl_pos \in Docs
    /\ last.ret = MaxPart

\* C9: after any sequence of need_stat calls the declared set is the OR of
\* the flags declared, whatever their order and however often repeated.
C9_DeclaredIsUnionOfCalls ==
    weights[1].stats_needed =
        UNION {FlagBits[calls[k]] : k \in 1..Len(calls)}

C9_Witness ==
    /\ Len(calls) >= 3
    /\ calls[1] = "WDF" /\ calls[2] = "DOC_LENGTH" /\ calls[3] = "WDF"
    /\ weights[1].stats_needed = {1, 3}

\* C10 as claimed: once initialised, the declared set equals the set at the
\* moment of initialisation.
C10_FrozenAfterInit ==
    weights[1].inited => weights[1].stats_needed = stats_at_init

\* C10 amended: once initialised, the declared set contains the set at the
\* moment of initialisation; need_stat calls made later still add their
\* flags.
C10_GrowsAfterInit ==
    weights[1].inited =>
        /\ stats_at_init \subseteq weights[1].stats_needed
        /\ weights[1].stats_needed =
               UNION {FlagBits[calls[k]] : k \in 1..Len(calls)}

C10_Witness ==
    /\ weights[1].inited
    /\ stats_at_init = {1}
    /\ weights[1].stats_needed = {1, 3}

\* The statistics fetched together (one numeric value, 1) and the statistics
\* always available (numeric value 0).
FetchedTogether == {"TERMFREQ", "RELTERMFREQ", "COLLECTION_FREQ"}
AlwaysAvailable == {"COLLECTION_SIZE", "RSET_SIZE", "QUERY_LENGTH", "WQF"}

\* The group of statistics a shared-value statistic belongs to.
SharedGroup(name) ==
    IF name \in FetchedTogether THEN FetchedTogether ELSE AlwaysAvailable

\* C11 as claimed: after a single need_stat call for one statistic of a
\* shared-value group, the declared set differs from the set that declaring
\* any other statistic of the group alone gives, so the set tells which of
\* them was declared.
C11_SharedValuesToldApart ==
    (Len(calls) = 1 /\ calls[1] \in FetchedTogether \cup AlwaysAvailable) =>
        \A other \in SharedGroup(calls[1]) \ {calls[1]} :
            weights[1].stats_needed # need_stat(Weight, other)

\* C11 amended: after a single need_stat call for one statistic of a
\* shared-value group, the declared set is the set that declaring any other
\* statistic of the group alone gives: bit 0 alone for TERMFREQ, RELTERMFREQ
\* and COLLECTION_FREQ, and the empty set of a fresh instance for
\* COLLECTION_SIZE, RSET_SIZE, QUERY_LENGTH and WQF.
C11_SharedValuesCoincide ==
    (Len(calls) = 1 /\ calls[1] \in FetchedTogether \cup AlwaysAvailable) =>
        /\ \A other \in SharedGroup(calls[1]) :
               weights[1].stats_needed = need_stat(Weight, other)
        /\ weights[1].stats_needed =
               (IF calls[1] \in FetchedTogether THEN {0} ELSE Weight)

C11_Witness ==
    /\ calls = <<"RELTERMFREQ">>
    /\ weights[1].stats_needed = {0}
    /\ weights[1].stats_needed = need_stat(Weight, "COLLECTION_FREQ")

\* C12: BoolWeight returns 0 from get_sumpart, get_maxpart, get_sumextra and
\* get_maxextra, whatever the inputs and whatever factor it was initialised
\* with.
C12_BoolWeightReturnsZero ==
    (sc.scheme = "bool" /\ sc.op # "none") =>
        /\ sc.ret = Value(0, 1)
        /\ IsZero(sc.ret)

C12_Witness ==
    /\ sc.scheme = "bool"
    /\ sc.factor = MaxFactor
    /\ sc.op = "get_sumpart"
    /\ sc.wdf = MaxWdf /\ sc.doclen = MaxDocLen
    /\ IsZero(sc.ret)

\* The enumerators other than the sentinel.
OtherFlags == DOMAIN stat_flags \ {"IS_BOOLWEIGHT_"}

\* C13: is_bool_weight_() is true of a BoolWeight from its construction on
\* and false of every instance of every other built-in scheme, and the other
\* enumerators ORed together do not set the sentinel.
C13_SentinelOnlyForBoolWeight ==
    /\ sc.scheme # "none" =>
           (is_bool_weight_(sc.stats_needed) <=> sc.scheme = "bool")
    /\ ~is_bool_weight_(UNION {FlagBits[flag] : flag \in OtherFlags})

C13_Witness ==
    /\ sc.scheme = "bool"
    /\ sc.inited
    /\ sc.op = "get_maxextra"
    /\ is_bool_weight_(sc.stats_needed)

\* k1 * b == 0 on doubles: a product with a NaN operand is NaN.
ProductIsZero(x, y) == ~x.nan /\ ~y.nan /\ (x.v = 0 \/ y.v = 0)

\* The instance declares none of the document-length statistics.
NoDocLengthStats(w) ==
    /\ ~Declares(w, "DOC_LENGTH")
    /\ ~Declares(w, "DOC_LENGTH_MIN")
    /\ ~Declares(w, "AVERAGE_LENGTH")
    /\ ~get_sumpart_needs_doclength_(w.stats_needed)

\* C14 as claimed: a BM25Weight whose stored k1 * b is 0 declares none of
\* DOC_LENGTH, DOC_LENGTH_MIN, AVERAGE_LENGTH, whatever k2, k3, min_normlen.
C14_NoDocLengthWhenK1BZero ==
    (/\ sc.scheme \in {"bm25", "trad"}
     /\ ProductIsZero(sc.param_k1, sc.param_b))
        => NoDocLengthStats(sc)

\* C14 amended: a BM25Weight whose stored k1 * b is 0 and whose stored k2 is
\* 0 declares none of DOC_LENGTH, DOC_LENGTH_MIN, AVERAGE_LENGTH, whatever
\* k3 and min_normlen; with k2 non-zero it declares all three.
C14_NoDocLengthWhenK1BAndK2Zero ==
    (/\ sc.scheme \in {"bm25", "trad"}
     /\ ProductIsZero(sc.param_k1, sc.param_b))
        => IF Ne(sc.param_k2, Double(0))
           THEN /\ Declares(sc, "DOC_LENGTH")
                /\ Declares(sc, "DOC_LENGTH_MIN")
                /\ Declares(sc, "AVERAGE_LENGTH")
           ELSE NoDocLengthStats(sc)

C14_Witness ==
    /\ sc.scheme = "bm25"
    /\ sc.args # << >>
    /\ sc.args[4] = Double(-5)
    /\ sc.param_k1 = Double(10) /\ sc.param_b = Double(0)
    /\ sc.param_k2 = Double(0) /\ sc.param_k3 = Double(10)
    /\ NoDocLengthStats(sc)

\* The stored k1, k2, k3 and b of a BM25Weight or BM25PlusWeight.
Stored(w) == <<w.param_k1, w.param_k2, w.param_k3, w.param_b>>

\* The double d lies in the range of parameter i (1..3: k >= 0, 4: b in
\* [0, 1]).
InRange(i, d) ==
    IF i = 4 THEN Ge(d, Double(0)) /\ Le(d, Double(10)) ELSE Ge(d, Double(0))

\* C15: for every argument tuple of the BM25Weight and BM25PlusWeight
\* constructors, the stored k1, k2, k3 are >= 0 and the stored b is in
\* [0, 1], arguments already in range are stored unchanged, and the declared
\* statistics are those of the stored parameters.
C15_StoredParametersInRange ==
    (sc.scheme \in {"bm25", "bm25+"} /\ sc.args # << >>) =>
        /\ \A i \in 1..4 : InRange(i, Stored(sc)[i])
        /\ \A i \in 1..4 : InRange(i, sc.args[i]) => Stored(sc)[i] = sc.args[i]
        /\ sc.stats_needed =
               BM25Stats(sc.param_k1, sc.param_k2, sc.param_k3, sc.param_b)

\* C16 as claimed: every BM25PlusWeight holds a strictly positive delta.
C16_DeltaStrictlyPositive ==
    sc.scheme = "bm25+" => Gt(sc.param_delta, Double(0))

\* C16 amended: the delta a BM25PlusWeight holds is never negative: it is 0
\* for a negative argument and the argument as given otherwise, so it is
\* strictly positive exactly when the argument is.
C16_DeltaNeverNegative ==
    (sc.scheme = "bm25+" /\ sc.args # << >>) =>
        /\ ~Lt(sc.param_delta, Double(0))
        /\ sc.param_delta =
               (IF Lt(sc.args[6], Double(0)) THEN Double(0) ELSE sc.args[6])
        /\ Gt(sc.param_delta, Double(0)) <=> Gt(sc.args[6], Double(0))

C16_Witness ==
    /\ sc.scheme = "bm25+"
    /\ sc.args # << >>
    /\ sc.args[6] = Double(-5)
    /\ sc.param_delta = Double(0)

Clamp(x, lo, hi) == IF x < lo THEN lo ELSE IF x > hi THEN hi ELSE x

\* C17: an initialised LMJMWeight built with lambda <= 0 or lambda >= 1 uses
\* clamp((query_length - 1) / 10, 0.1, 0.7), which is 0.1 for query_length
\* <= 2, (query_length - 1) / 10 for 3..7 and 0.7 for query_length >= 8;
\* built with a lambda strictly between 0 and 1 it uses that lambda.
C17_LambdaFromQueryLength ==
    (sc.scheme = "lmjm" /\ sc.inited) =>
        /\ (Le(sc.param_lambda, Double(0)) \/ Ge(sc.param_lambda, Double(10)))
              => /\ sc.lambda = Double(Clamp(sc.query_length_ - 1, 1, 7))
                 /\ sc.query_length_ <= 2 => sc.lambda = Double(1)
                 /\ sc.query_length_ \in 3..7 =>
                        sc.lambda = Double(sc.query_length_ - 1)
                 /\ sc.query_length_ >= 8 => sc.lambda = Double(7)
        /\ (Gt(sc.param_lambda, Double(0)) /\ Lt(sc.param_lambda, Double(10)))
              => sc.lambda = sc.param_lambda

C17_Witness ==
    /\ sc.scheme = "lmjm"
    /\ sc.inited
    /\ sc.param_lambda = Double(10)
    /\ sc.query_length_ = 5
    /\ sc.lambda = Double(4)

\* C18 as claimed: get_sumpart and get_maxpart of an initialised CoordWeight
\* return 1.
C18_CoordReturnsOne ==
    (sc.scheme = "coord" /\ sc.op \in {"get_sumpart", "get_maxpart"}) =>
        sc.ret = Value(1, 1)

\* C18 amended: get_sumpart of an initialised CoordWeight returns the factor
\* it was initialised with (one point, scaled), for every input, and
\* get_maxpart returns the same value.
C18_CoordReturnsFactor ==
    (sc.scheme = "coord" /\ sc.op \in {"get_sumpart", "get_maxpart"}) =>
        /\ sc.ret = Value(sc.factor, 1)
        /\ sc.ret = Weight_get_maxpart(sc)
        /\ sc.ret = Weight_get_sumpart(sc, sc.wdf, sc.doclen, sc.uniqterm,
                                       sc.wdfdocmax)

C18_Witness ==
    /\ sc.scheme = "coord"
    /\ sc.op = "get_sumpart"
    /\ sc.factor = MaxFactor
    /\ sc.wdf = MaxWdf
    /\ sc.ret = Value(MaxFactor, 1)

\* C19: get_sumpart of an initialised DiceCoeffWeight is 2 * wqf (scaled by
\* the factor) over query_length + uniqterm; it never exceeds get_maxpart(),
\* the same quotient at the lower bound on unique terms; it does not grow
\* with uniqterm, and does not depend on wdf, doclen or wdfdocmax.
C19_DiceBoundedAndMonotone ==
    (sc.scheme = "dicecoeff" /\ sc.op = "get_sumpart") =>
        /\ sc.ret = Value(2 * sc.wqf_ * sc.factor,
                          sc.query_length_ + sc.uniqterm)
        /\ Weight_get_maxpart(sc) =
               Value(2 * sc.wqf_ * sc.factor,
                     sc.query_length_ + sc.unique_terms_lower_bound_)
        /\ Leq(sc.ret, Weight_get_maxpart(sc))
        /\ \A more \in sc.uniqterm..MaxUniqueTerms :
               Leq(Weight_get_sumpart(sc, sc.wdf, sc.doclen, more,
                                      sc.wdfdocmax), sc.ret)
        /\ \A wdf \in 0..MaxWdf, doclen \in 0..MaxDocLen,
              wdfdocmax \in 0..MaxWdf :
               Weight_get_sumpart(sc, wdf, doclen, sc.uniqterm, wdfdocmax)
                   = sc.ret

C19_Witness ==
    /\ sc.scheme = "dicecoeff"
    /\ sc.op = "get_sumpart"
    /\ sc.factor = 1 /\ sc.wqf_ = MaxWqf
    /\ sc.uniqterm > sc.unique_terms_lower_bound_
    /\ sc.doclen # sc.uniqterm
    /\ ~Leq(Weight_get_maxpart(sc), sc.ret)

\* C20: a TfIdfWeight with normalizations NONE/TFIDF/NONE initialised for a
\* term that occurs in every document (termfreq = collection size) has
\* idfn = log(1) = 0, so get_sumpart returns 0 for every wdf and get_maxpart
\* returns 0.
C20_TfIdfZeroForTermInEveryDocument ==
    (/\ sc.scheme = "tfidf"
     /\ sc.inited
     /\ sc.termfreq_ = sc.collection_size_)
        => /\ IsZero(sc.idfn)
           /\ sc.op \in {"get_sumpart", "get_maxpart"} => IsZero(sc.ret)
           /\ IsZero(Weight_get_maxpart(sc))
           /\ \A wdf \in 0..MaxWdf :
                  IsZero(Weight_get_sumpart(sc, wdf, 0, 0, 0))

C20_Witness ==
    /\ sc.scheme = "tfidf"
    /\ sc.op = "get_sumpart"
    /\ sc.termfreq_ = MaxCollection /\ sc.collection_size_ = MaxCollection
    /\ sc.wdf = MaxWdf /\ sc.factor = MaxFactor
    /\ sc.ret.n # 0
    /\ IsZero(sc.ret)


\* What a clone of the configured prototype is once initialised with the
\* statistics and factor executor e used.
OwnInit(e) ==
    init_stats(Weight_clone(outcome.made), shards[e].stats, shards[e].factor)

\* C21: in every interleaving of the executors' clone, initialise and score
\* steps, the prototype stays as configured, each executor holds an instance
\* of its own, that instance is the copy of the prototype before its
\* executor initialised it and afterwards exactly what the executor's own
\* statistics and factor make of that copy (BM25's cached len_factor and
\* termweight included), and the score or bound the executor got is the one
\* an instance initialised that way returns.
C21_CloneIndependence ==
    /\ clones[Prototype].scheme # "none" => clones[Prototype] = outcome.made
    /\ \A e \in Executors :
           shards[e].wt # NULL =>
               /\ shards[e].wt # Prototype
               /\ \A f \in Executors \ {e} : shards[f].wt # shards[e].wt
               /\ ~shards[e].inited =>
                      clones[shards[e].wt] = Weight_clone(outcome.made)
               /\ shards[e].inited => clones[shards[e].wt] = OwnInit(e)
               /\ shards[e].op = "get_sumpart" =>
                      shards[e].ret =
                          Weight_get_sumpart(OwnInit(e), shards[e].wdf,
                                             shards[e].doclen,
                                             shards[e].uniqterm,
                                             shards[e].wdfdocmax)
               /\ shards[e].op = "get_maxpart" =>
                      shards[e].ret = Weight_get_maxpart(OwnInit(e))

\* Both executors initialised their clones of one BM25 prototype with
\* different statistics, so the cached len_factor and termweight differ.
C21_WitnessBM25 ==
    /\ clones[Prototype].scheme = "bm25"
    /\ \A e \in Executors : shards[e].inited
    /\ clones[shards[1].wt].len_factor # clones[shards[2].wt].len_factor
    /\ clones[shards[1].wt].termweight # clones[shards[2].wt].termweight

\* One executor scored with its clone after the other executor had
\* initialised its own clone differently, and the scores differ.
C21_Witness ==
    /\ clones[Prototype].scheme = "tfidf"
    /\ shards[1].op = "get_sumpart" /\ shards[2].op = "get_sumpart"
    /\ shards[1].wdf = shards[2].wdf
    /\ shards[1].stats # shards[2].stats
    /\ ~IsZero(shards[1].ret) /\ ~IsZero(shards[2].ret)
    /\ ~Leq(shards[1].ret, shards[2].ret)


\* The parameters of a BM25Weight or BM25PlusWeight.
Parameters(w) ==
    <<w.param_k1, w.param_k2, w.param_k3, w.param_b, w.param_min_normlen,
      w.param_delta>>

\* C22: the copy clone() builds of a BM25Weight or BM25PlusWeight (TradWeight
\* included, which inherits BM25Weight::clone) by calling the constructor
\* with the stored parameters has the parameters and the declared set of
\* the original and is not initialised: until its executor initialises it,
\* it differs from the original in nothing but the constructor arguments it
\* was built from; and constructing once more from the copy's parameters
\* gives the copy again (the clamps change nothing on clamped values).
C22_CloneValueIdentical ==
    \A e \in Executors :
        (/\ shards[e].wt # NULL
         /\ outcome.made.scheme \in {"bm25", "bm25+", "trad"}) =>
            LET c == clones[shards[e].wt]
                o == outcome.made
            IN  /\ Parameters(c) = Parameters(o)
                /\ c.stats_needed = o.stats_needed
                /\ ~shards[e].inited =>
                       /\ ~c.inited
                       /\ [c EXCEPT !.args = o.args, !.scheme = o.scheme] = o
                       /\ Weight_clone(c) = c

\* A clone was taken of a BM25PlusWeight whose constructor clamped each of
\* k1, b and delta.
C22_Witness ==
    /\ outcome.made.scheme = "bm25+"
    /\ Lt(outcome.made.args[1], Double(0))
    /\ Gt(outcome.made.args[4], Double(10))
    /\ Lt(outcome.made.args[6], Double(0))
    /\ shards[2].wt # NULL
    /\ clones[shards[2].wt].param_b = Double(10)


\* C24: on an instance of a subclass that overrides none of them,
\* serialise(), unserialise() and create_from_parameters() throw
\* UnimplementedError for every argument and return nothing, name() returns
\* the empty string, and the instance is afterwards as it was before the
\* call.
C24_DefaultsNotRemotable ==
    outcome.this.scheme = "user" =>
        /\ sc = outcome.this
        /\ outcome.op \in {"serialise", "unserialise",
                           "create_from_parameters"} =>
               /\ outcome.threw = "UnimplementedError"
               /\ outcome.made = NoScheme
               /\ outcome.ret = ""
        /\ outcome.op = "name" =>
               outcome.threw = "none" /\ outcome.ret = ""

\* serialise() was called on a user scheme that declares statistics.
C24_Witness ==
    /\ outcome.op = "serialise"
    /\ outcome.this.scheme = "user"
    /\ Declares(outcome.this, "DOC_LENGTH")

\* The parameter tokens a registered scheme accepts: at most as many as its
\* constructor has parameters, each of them a number.
Accepted(name, params) ==
    /\ Len(params) <= (CASE name = "bm25" -> 5
                         [] name = "bm25+" -> 6
                         [] OTHER -> 0)
    /\ \A i \in 1..Len(params) : IsNumber(params[i])

\* C25: Weight::create returns an instance only for a registered name
\* followed by parameter tokens that scheme accepts; an unknown name ends in
\* the not-found error and unaccepted parameters in the malformed-parameters
\* error, both without an instance; the registry and its prototypes are
\* never changed.
C25_CreateChecksNameAndParameters ==
    /\ registry = Registry
    /\ outcome.op = "create" =>
           LET known == /\ outcome.arg # << >>
                        /\ Head(outcome.arg) \in DOMAIN registry
           IN  /\ outcome.made # NoScheme =>
                      /\ known
                      /\ Accepted(Head(outcome.arg), Tail(outcome.arg))
                      /\ outcome.made.scheme = Head(outcome.arg)
                      /\ outcome.threw = "none"
               /\ ~known =>
                      /\ outcome.threw = "scheme-not-found"
                      /\ outcome.made = NoScheme
               /\ (known /\ ~Accepted(Head(outcome.arg),
                                       Tail(outcome.arg))) =>
                      /\ outcome.threw = "malformed-parameters"
                      /\ outcome.made = NoScheme

\* "bm25 1.5 -0.5" gave a BM25Weight with k1 = 1.5 and k2 clamped to 0.
C25_Witness ==
    /\ outcome.op = "create"
    /\ outcome.arg = <<"bm25", "1.5", "-0.5">>
    /\ outcome.made.param_k1 = Double(15)
    /\ outcome.made.param_k2 = Double(0)


\* C26: the combinator's needs_doclen says whether the strategy it owns now
\* declares DOC_LENGTH, so get_weight clamps the child's wdf to doclen
\* exactly when that strategy declares both WDF and DOC_LENGTH, whatever
\* the strategies owned before declared.
C26_ClampFollowsOwnedStrategy ==
    (alive /\ wt # NULL) =>
        /\ needs_doclen = Declares(weights[wt], "DOC_LENGTH")
        /\ last.op = "get_weight" =>
               last.wdf =
                   (IF ~Declares(weights[wt], "WDF") THEN 0
                    ELSE IF Declares(weights[wt], "DOC_LENGTH")
                    THEN Min(pl_wdf[pl_pos], last.arg_doclen)
                    ELSE pl_wdf[pl_pos])


\* C27: whenever the owned strategy declares WDF and WDF_DOC_MAX, the
\* wdfdocmax get_weight hands to get_sumpart is at least the wdf it hands
\* over in the same call.
C27_WdfDocMaxBoundsWdf ==
    (/\ last.op = "get_weight"
     /\ Declares(weights[wt], "WDF")
     /\ Declares(weights[wt], "WDF_DOC_MAX"))
        => last.wdfdocmax >= last.wdf


\* What C28 says of a get_weight call c made in a state where the owned
\* strategy is w.
FetchesOnlyWhatIsNeeded(c, w) ==
    /\ c.read_wdf = Declares(w, "WDF")
    /\ ~Declares(w, "WDF") => c.wdf = 0
    /\ c.read_doclen = (Declares(w, "WDF_DOC_MAX") /\ c.arg_doclen = 0)
    /\ ~c.read_doclen => c.doclen = c.arg_doclen
    /\ c.uniqterms = c.arg_unique_terms

\* C28: every get_weight call reads the child's wdf only if the owned
\* strategy declares WDF (and passes wdf = 0 otherwise), looks the document
\* length up in the posting-list tree only if the strategy declares
\* WDF_DOC_MAX and the doclen argument is 0, passes doclen on unchanged
\* when it looks nothing up and unique_terms always, and leaves the owned
\* strategy, want_wdf, want_wdfdocmax and the child's position as they
\* were.
C28_FetchesOnlyWhatIsNeeded ==
    [][last'.op = "get_weight" =>
           /\ FetchesOnlyWhatIsNeeded(last', weights[wt])
           /\ UNCHANGED <<wt, weights, want_wdf, want_wdfdocmax, pl_pos>>]_vars

\* A call with doclen = 0 on a strategy declaring WDF_DOC_MAX but not WDF:
\* the length was looked up, the child's wdf was not read.
C28_Witness ==
    /\ last.op = "get_weight"
    /\ last.read_doclen /\ ~last.read_wdf
    /\ last.arg_doclen = 0 /\ last.doclen = doclength[pl_pos]
    /\ pl_wdf[pl_pos] > 0 /\ last.wdf = 0
    /\ last.arg_unique_terms = MaxUniq


\* The three document-length statistics of BM25.
LengthStats == {"DOC_LENGTH", "DOC_LENGTH_MIN", "AVERAGE_LENGTH"}

\* C29: a BM25Weight or BM25PlusWeight built by the parameterized
\* constructor declares WDF and WDF_MAX always, and DOC_LENGTH,
\* DOC_LENGTH_MIN and AVERAGE_LENGTH all three if (k1 != 0 and b != 0) or
\* k2 != 0 holds of the stored parameters and none of them otherwise; one
\* built by the parameterless constructor declares the set the
\* parameterized constructor declares for the documented defaults.
C29_LengthStatsFollowParameters ==
    /\ (sc.scheme \in {"bm25", "bm25+", "trad"} /\ sc.args # << >>) =>
           LET C == \/ Ne(sc.param_k1, Double(0)) /\ Ne(sc.param_b, Double(0))
                    \/ Ne(sc.param_k2, Double(0))
           IN  /\ Declares(sc, "WDF") /\ Declares(sc, "WDF_MAX")
               /\ \A name \in LengthStats : Declares(sc, name) = C
    /\ (sc.scheme = "bm25" /\ sc.args = << >>) =>
           /\ Parameters(sc) =
                  Parameters(BM25Weight_params(Double(10), Double(0),
                                               Double(10), Double(5),
                                               Double(5)))
           /\ sc.stats_needed =
                  BM25Weight_params(Double(10), Double(0), Double(10),
                                    Double(5), Double(5)).stats_needed
    /\ (sc.scheme = "bm25+" /\ sc.args = << >>) =>
           /\ Parameters(sc) =
                  Parameters(BM25PlusWeight_params(Double(10), Double(0),
                                                   Double(10), Double(5),
                                                   Double(5), Double(10)))
           /\ sc.stats_needed =
                  BM25PlusWeight_params(Double(10), Double(0), Double(10),
                                        Double(5), Double(5),
                                        Double(10)).stats_needed

\* BM25PlusWeight(0, 0, 1, 1.5, 0.5, 1): b is clamped to 1, k1 = 0 and
\* k2 = 0 switch the length statistics off.
C29_Witness ==
    /\ sc.scheme = "bm25+" /\ sc.args # << >>
    /\ sc.param_k1 = Double(0) /\ sc.param_k2 = Double(0)
    /\ sc.args[4] = Double(15) /\ sc.param_b = Double(10)
    /\ Declares(sc, "WDF_MAX")
    /\ \A name \in LengthStats : ~Declares(sc, name)


\* The flag was passed to one of the need_stat calls made so far.
Called(flag) == \E k \in 1..Len(calls) : calls[k] = flag

\* C30: after any sequence of need_stat calls with enumerators of
\* stat_flags, each of the four per-document predicates is true exactly if
\* its own flag was among them; no other enumerator, alone or together with
\* others, makes one of them true.
C30_NeedPredicatesReportOwnFlag ==
    LET stats_needed == weights[1].stats_needed
    IN  /\ get_sumpart_needs_wdf_(stats_needed) = Called("WDF")
        /\ get_sumpart_needs_doclength_(stats_needed) = Called("DOC_LENGTH")
        /\ get_sumpart_needs_uniqueterms_(stats_needed) =
               Called("UNIQUE_TERMS")
        /\ get_sumpart_needs_wdfdocmax_(stats_needed) =
               Called("WDF_DOC_MAX")

\* A shard-scope bound and the boolean sentinel were declared: bits are
\* set, and none of the four predicates is true.
C30_Witness ==
    /\ calls = <<"UNIQUE_TERMS_MIN", "IS_BOOLWEIGHT_">>
    /\ weights[1].stats_needed # {}
    /\ ~get_sumpart_needs_uniqueterms_(weights[1].stats_needed)
    /\ ~get_sumpart_needs_wdf_(weights[1].stats_needed)

====
